---- MODULE Spec2Model ----
(***************************************************************************)
(* Screening & Scoring Engine of screener_v2.                              *)
(*                                                                         *)
(* Four specifications share this module:                                  *)
(*   SpecScore    - utils/score_calculator.py, the pure scoring functions  *)
(*   SpecResolver - utils/financial_data.py, get_financial_statement and   *)
(*                  its file cache                                         *)
(*   SpecTask     - utils/screener.py, process_single_stock on one         *)
(*                  instrument (with utils/stock_data.py's get_stock_price)*)
(*   Spec         - utils/screener.py, run_screening and its worker pool   *)
(*                                                                         *)
(* Numbers: every score is an integer number of tenths of a point          *)
(* (25.0 points = 250); percentages and ratios are integers in the unit    *)
(* stated at each operator.  round(x, 1) is RoundDiv, round-half-even on   *)
(* the exact value.                                                        *)
(***************************************************************************)
EXTENDS Integers, Sequences, FiniteSets, TLC

VARIABLES
    calc,           \* SpecScore, SpecTask: the call made, [fn, in, out]
    cache,          \* SpecResolver: financial cache files, code -> entry or NoEntry
    call,           \* SpecResolver: the get_financial_statement call in progress / returned
    flags,          \* SpecResolver: [dart_fss, api_key] of the process
    pc,             \* Spec: position of run_screening
    total_stocks,   \* Spec: len(all_stocks) after normalisation
    future,         \* Spec: per submitted task, the state of its future
    completed,      \* Spec: task indices in the order their futures finished
    task,           \* Spec: the task that finished last and the seconds it ran
    worker_count,   \* Spec: max_workers of the ThreadPoolExecutor
    total_score_threshold,
    all_results,    \* Spec: results appended so far, in collection order
    processed_count,
    success_count,
    error_count,
    returned,       \* Spec: what run_screening returned
    files           \* Spec: the results CSV and the details JSON run_screening wrote

scoreVars == <<calc>>
resolverVars == <<cache, call, flags>>
runVars == <<pc, total_stocks, future, completed, task, worker_count,
             total_score_threshold, all_results,
             processed_count, success_count, error_count, returned, files>>
vars == <<calc, cache, call, flags, pc, total_stocks, future, completed, task,
          worker_count, total_score_threshold, all_results,
          processed_count, success_count, error_count, returned, files>>

----------------------------------------------------------------------------
(* Arithmetic helpers *)

Min(a, b) == IF a <= b THEN a ELSE b
Max(a, b) == IF a >= b THEN a ELSE b

\* Python round(n/d, 0) for n >= 0, d > 0: nearest integer, ties to even.
RoundDiv(n, d) ==
    LET q == n \div d
        r == n % d
    IN  IF 2 * r > d THEN q + 1
        ELSE IF 2 * r < d THEN q
        ELSE IF q % 2 = 0 THEN q ELSE q + 1

----------------------------------------------------------------------------
(* score_calculator.py : calculate_total_score *)

\* (the 100-point total of four sub-scores, before investor flow was added)
RawTotalWithoutInvestor(trend, pattern, rs, fundamental, investor) ==
    trend + pattern + rs + fundamental

\* Raw total of the five sub-scores, in tenths (at most 1120).
RawTotal(trend, pattern, rs, fundamental, investor) ==
    trend + pattern + rs + fundamental + investor

\* min(round((raw_total / 112) * 100, 1), 100.0), in tenths:
\* raw/10/112*100 points = raw*25/28 tenths.
calculate_total_score(trend, pattern, rs, fundamental, investor) ==
    Min(RoundDiv(RawTotal(trend, pattern, rs, fundamental, investor) * 25, 28), 1000)

----------------------------------------------------------------------------
(* score_calculator.py : calculate_trend_score                             *)
(* Input: the latest row of the indicator-enriched frame, abstracted to    *)
(*   empty              stock_data.empty                                   *)
(*   has_ma             'MA20' and 'MA60' (and 'MA120') columns exist      *)
(*   len                len(stock_data)                                    *)
(*   Close, MA20, MA60  price levels of the latest row                     *)
(*   up                 the windows (20, 60, 120) whose MA slope is > 0    *)
(*   ma_raises          the slope block raised (bare except at line 61)    *)
(*   low_ratio          Close / 52W_Low in hundredths, -1 when the column  *)
(*                      is missing or 52W_Low <= 0                         *)
(*   vr20, vr60         volume ratios in hundredths, vr20 = -1 when the    *)
(*                      'Volume' column is missing or the block raised     *)

\* (the alignment comparisons taken as >=)
MaAlignmentScoreNonStrict(in) ==
    IF ~in.has_ma THEN 0
    ELSE (IF in.Close >= in.MA20 THEN 3 ELSE 0) + (IF in.MA20 >= in.MA60 THEN 3 ELSE 0)

MaAlignmentScore(in) ==
    IF ~in.has_ma THEN 0
    ELSE (IF in.Close > in.MA20 THEN 3 ELSE 0) + (IF in.MA20 > in.MA60 THEN 3 ELSE 0)

MaTrendScore(in) ==
    IF in.len < 20 \/ in.ma_raises THEN 0
    ELSE (IF in.has_ma /\ 20 \in in.up THEN 2 ELSE 0)
       + (IF in.has_ma /\ in.len >= 60 /\ 60 \in in.up THEN 2 ELSE 0)
       + (IF in.has_ma /\ in.len >= 120 /\ 120 \in in.up THEN 2 ELSE 0)

LongTrendScore(in) ==
    IF in.low_ratio < 0 THEN 0
    ELSE IF in.low_ratio >= 150 THEN 6
    ELSE IF in.low_ratio >= 130 THEN 4
    ELSE IF in.low_ratio >= 120 THEN 2
    ELSE 0

\* (a top tier worth 8 points)
VolumeTierTop8(vr20) ==
    IF vr20 >= 200 THEN 8
    ELSE IF vr20 >= 150 THEN 6
    ELSE IF vr20 >= 130 THEN 5
    ELSE IF vr20 >= 110 THEN 4
    ELSE IF vr20 >= 100 THEN 3
    ELSE IF vr20 >= 80 THEN 2
    ELSE IF vr20 >= 50 THEN 1
    ELSE 0

VolumeTier(vr20) ==
    IF vr20 >= 200 THEN 7
    ELSE IF vr20 >= 150 THEN 6
    ELSE IF vr20 >= 130 THEN 5
    ELSE IF vr20 >= 110 THEN 4
    ELSE IF vr20 >= 100 THEN 3
    ELSE IF vr20 >= 80 THEN 2
    ELSE IF vr20 >= 50 THEN 1
    ELSE 0

VolumeScore(in) ==
    IF in.vr20 < 0 \/ in.len < 20 THEN 0
    ELSE IF in.vr60 >= 150 THEN Min(VolumeTier(in.vr20) + 1, 7)
    ELSE VolumeTier(in.vr20)

calculate_trend_score(in) ==
    IF in.empty THEN 0
    ELSE 10 * (MaAlignmentScore(in) + MaTrendScore(in) + LongTrendScore(in) + VolumeScore(in))

(* score_calculator.py : calculate_pattern_score *)
WeightVcp == 8
WeightPivot == 7
WeightBreakout == 5

calculate_pattern_score(in) ==
    10 * ((IF in.vcp THEN WeightVcp ELSE 0)
        + (IF in.pivot THEN WeightPivot ELSE 0)
        + (IF in.breakout THEN WeightBreakout ELSE 0))

(* stock_data.py : calculate_indicators, the moving averages.  A frame is  *)
(* the sequence of its closes; a mean is kept exact as sum and count.      *)

RECURSIVE SumRange(_, _, _)
SumRange(close, i, j) ==
    IF i > j THEN 0
    ELSE IF i = j THEN close[i]
    ELSE LET m == (i + j) \div 2
         IN  SumRange(close, i, m) + SumRange(close, m + 1, j)

\* df['Close'].rolling(window=window, min_periods=1).mean() at row k
RollingMean(close, k, window) ==
    [sum |-> SumRange(close, Max(1, k - window + 1), k), n |-> Min(k, window)]

\* calculate_indicators(df): the rows with their MA20, MA60 and MA120
\* (the empty frame is returned as it is)
calculate_indicators(close) ==
    [k \in 1..Len(close) |->
        [Close |-> close[k],
         MA20 |-> RollingMean(close, k, 20),
         MA60 |-> RollingMean(close, k, 60),
         MA120 |-> RollingMean(close, k, 120)]]

\* latest = stock_data.iloc[-1] as calculate_trend_score compares it: Close,
\* MA20 and MA60 brought to the common denominator of the two means
LatestRow(df) ==
    LET latest == df[Len(df)]
    IN  [has_ma |-> TRUE,
         Close |-> latest.Close * latest.MA20.n * latest.MA60.n,
         MA20 |-> latest.MA20.sum * latest.MA60.n,
         MA60 |-> latest.MA60.sum * latest.MA20.n]

\* details['ma_alignment_score'] of calculate_trend_score on the frame
ma_alignment_score(df) == IF df = <<>> THEN 0 ELSE MaAlignmentScore(LatestRow(df))

(* pattern_analyzer.py : detect_vcp, detect_pocket_pivot, detect_breakout  *)
(* with their default parameters.  A frame df is described by              *)
(*   len              its number of rows                                   *)
(*   contracted       recent volatility < previous volatility * 0.8        *)
(*   has_ma           it has the columns calculate_indicators adds         *)
(*                    (MA20, MA60, MA120, Volume_MA20)                     *)
(*   c20, m2060, m60120   Close > MA20, MA20 > MA60, MA60 > MA120 (latest) *)
(*   vol              latest Volume / Volume_MA20 in hundredths            *)
(*   change           latest Close over previous Close, the rise in        *)
(*                    thousandths (30 = exactly 3%)                        *)
(*   close_breakout   latest Close > the resistance level                  *)
(* A detector's outcome is (found, data), data given by its keys, or an    *)
(* exception.                                                              *)
VcpWindow == 60
PivotWindow == 50
BreakoutWindow == 60
ConsolidationDays == 20

NotFound == [raised |-> FALSE, found |-> FALSE, data |-> {}]
IndexError == [raised |-> TRUE, found |-> FALSE, data |-> {}]
Found(found, keys) == [raised |-> FALSE, found |-> found, data |-> keys]

\* len(df.tail(window))
TailLen(df, window) == Min(df.len, window)

\* latest['Close'] > prev['Close'] * 1.03
PriceUp(df) == df.change > 30

\* (detect_vcp taking the volatility contraction alone)
detect_vcp_contraction_only(df) ==
    IF df.len = 0 \/ df.len < VcpWindow THEN NotFound
    ELSE IF TailLen(df, VcpWindow) < 50 THEN NotFound
    ELSE Found(df.contracted,
               {"recent_volatility", "previous_volatility", "volatility_ratio",
                "ma_aligned"})

detect_vcp(df) ==
    IF df.len = 0 \/ df.len < VcpWindow THEN NotFound
    ELSE IF TailLen(df, VcpWindow) < 50 THEN NotFound
    ELSE Found(df.contracted /\ (df.has_ma /\ df.c20 /\ df.m2060 /\ df.m60120),
               {"recent_volatility", "previous_volatility", "volatility_ratio",
                "ma_aligned"})

\* (detect_pocket_pivot without the length test of line 79: iloc[-1] and
\* iloc[-2] raise IndexError on a frame of less than two rows)
detect_pocket_pivot_unguarded(df) ==
    IF TailLen(df, PivotWindow) < 2 THEN IndexError
    ELSE Found((df.has_ma /\ df.vol > 150) /\ PriceUp(df)
                  /\ (df.has_ma /\ df.c20 /\ df.m2060),
               {"volume_ratio", "price_change_pct", "above_ma"})

\* (detect_pocket_pivot with the 3% rise taken inclusively)
detect_pocket_pivot_inclusive(df) ==
    IF df.len = 0 \/ df.len < PivotWindow THEN NotFound
    ELSE IF TailLen(df, PivotWindow) < 2 THEN IndexError
    ELSE Found((df.has_ma /\ df.vol > 150) /\ (df.change >= 30)
                  /\ (df.has_ma /\ df.c20 /\ df.m2060),
               {"volume_ratio", "price_change_pct", "above_ma"})

detect_pocket_pivot(df) ==
    IF df.len = 0 \/ df.len < PivotWindow THEN NotFound
    ELSE IF TailLen(df, PivotWindow) < 2 THEN IndexError
    ELSE Found((df.has_ma /\ df.vol > 150) /\ PriceUp(df)
                  /\ (df.has_ma /\ df.c20 /\ df.m2060),
               {"volume_ratio", "price_change_pct", "above_ma"})

detect_breakout(df) ==
    IF df.len = 0 \/ df.len < BreakoutWindow THEN NotFound
    ELSE IF TailLen(df, BreakoutWindow) < ConsolidationDays + 5 THEN NotFound
    ELSE Found(df.close_breakout /\ (df.has_ma /\ df.vol > 130),
               {"resistance_level", "breakout_level", "price_to_resistance_ratio",
                "volume_surge"})

(* score_calculator.py : calculate_rs_score                                *)
(* rs13, rs26: return spread stock - market in permille (0.2 = 200);       *)
(* has13 / has26: both Return_13W / Return_26W values exist and are not    *)
(* NaN.  The sum is kept in 1/1200 of a point so that both halves are      *)
(* exact: min(max(rs/0.2, 0), 1) * 12.5 = clamp(rs13, 0, 200) * 75 / 1200. *)
Clamp(x, lo, hi) == Min(Max(x, lo), hi)

Rs13Score1200(in) == IF in.has13 THEN Clamp(in.rs13, 0, 200) * 75 ELSE 0
Rs26Score1200(in) == IF in.has26 THEN Clamp(in.rs26, 0, 300) * 50 ELSE 0

calculate_rs_score(in) ==
    IF in.stock_empty \/ in.market_empty THEN 0
    ELSE RoundDiv(Rs13Score1200(in) + Rs26Score1200(in), 120)

(* score_calculator.py : calculate_investor_score                          *)
(* in.present = FALSE is `not investor_data` (None or {}).  Ratios are in  *)
(* tenths of a percent; has_short = FALSE is a record without the          *)
(* 'short_selling_ratio' key (.get default 0).  Scores in tenths.          *)
\* (the foreign ratio tiers applied whatever the net buy)
ForeignScoreUngated(in) ==
    IF in.foreign_ratio >= 50 THEN 40
    ELSE IF in.foreign_ratio >= 20 THEN 30
    ELSE IF in.foreign_ratio >= 10 THEN 20
    ELSE IF in.foreign_ratio > 0 THEN 10
    ELSE 0

ForeignScore(in) ==
    IF in.foreign_net_buy > 0
    THEN IF in.foreign_ratio >= 50 THEN 40
         ELSE IF in.foreign_ratio >= 20 THEN 30
         ELSE IF in.foreign_ratio >= 10 THEN 20
         ELSE IF in.foreign_ratio > 0 THEN 10
         ELSE 0
    ELSE 0

InstitutionScore(in) ==
    IF in.institution_net_buy > 0
    THEN IF in.institution_ratio >= 30 THEN 40
         ELSE IF in.institution_ratio >= 15 THEN 30
         ELSE IF in.institution_ratio >= 5 THEN 20
         ELSE IF in.institution_ratio > 0 THEN 10
         ELSE 0
    ELSE 0

\* (the consecutive-day component with two tiers and no joint-buying bonus)
ConsecutiveScoreTwoTier(in) ==
    IF in.net_buy_days >= 10 THEN 20
    ELSE IF in.net_buy_days >= 5 THEN 10
    ELSE 0

ConsecutiveScore(in) ==
    LET base == IF in.net_buy_days >= 15 THEN 20
                ELSE IF in.net_buy_days >= 10 THEN 15
                ELSE IF in.net_buy_days >= 5 THEN 10
                ELSE IF in.net_buy_days >= 3 THEN 5
                ELSE 0
    IN  IF in.foreign_buy_days >= 3 /\ in.institution_buy_days >= 3
        THEN Min(base + 5, 20)
        ELSE base

\* (a missing short_selling_ratio read as above every tier)
ShortRatioMissingWorst(in) == IF in.has_short THEN in.short_selling_ratio ELSE 101

ShortRatio(in) == IF in.has_short THEN in.short_selling_ratio ELSE 0

ShortScore(in) ==
    IF ShortRatio(in) <= 10 THEN 20
    ELSE IF ShortRatio(in) <= 30 THEN 15
    ELSE IF ShortRatio(in) <= 50 THEN 10
    ELSE IF ShortRatio(in) <= 100 THEN 5
    ELSE 0

InvestorMaxPoints == 120

\* (calculate_investor_score scoring the placeholder record like any other)
calculate_investor_score_ungated(in) ==
    IF ~in.present THEN 0
    ELSE Min(ForeignScore(in) + InstitutionScore(in) + ConsecutiveScore(in) + ShortScore(in),
             InvestorMaxPoints)

calculate_investor_score(in) ==
    IF ~in.present THEN 0
    ELSE IF in.data_source = "default" THEN 0
    ELSE Min(ForeignScore(in) + InstitutionScore(in) + ConsecutiveScore(in) + ShortScore(in),
             InvestorMaxPoints)

----------------------------------------------------------------------------
(* score_calculator.py : calculate_fundamental_score                       *)
(* in.present = FALSE is `not financial_data` (None or {}).                *)
(* in.source / in.data_source: the values of those keys, "absent" when the *)
(* key is missing.  in.keys: the numeric keys the record holds.  Values    *)
(* are in tenths (ROE 15% = 150, PBR 1.5 = 15); a key the record lacks     *)
(* reads as 0 (.get default).  Component scores are in thousandths of a    *)
(* point, the result in tenths.                                            *)

\* financial_data.get('source', financial_data.get('data_source', 'unknown'))
DataSourceOf(in) ==
    IF in.source # "absent" THEN in.source
    ELSE IF in.data_source # "absent" THEN in.data_source
    ELSE "unknown"

Get(in, key) == IF key \in in.keys THEN in.val[key] ELSE 0

\* ROE rubric shared by the three branches; top/mid are the tier points.
RoeScore(roe, top, mid) ==
    Min(IF roe >= 150 THEN top
        ELSE IF roe >= 100 THEN mid
        ELSE IF roe >= 50 THEN 4000
        ELSE IF roe > 0 THEN roe * 80
        ELSE 0, top)

\* PER / PBR rubric: (0, t1] -> a, (t1, t2] -> b, (t2, t3] -> c, > t3 -> 1.
BandScore(x, t1, t2, t3, a, b, c) ==
    IF 0 < x /\ x <= t1 THEN a
    ELSE IF t1 < x /\ x <= t2 THEN b
    ELSE IF t2 < x /\ x <= t3 THEN c
    ELSE IF x > t3 THEN 1000
    ELSE 0

OpMarginScore(m) ==
    Min(IF m >= 100 THEN 7000
        ELSE IF m >= 50 THEN 5000
        ELSE IF m >= 20 THEN 3000
        ELSE IF m > 0 THEN m * 150
        ELSE 0, 7000)

DebtScore(d) ==
    IF d <= 300 THEN 2000
    ELSE IF d <= 500 THEN 1500
    ELSE IF d <= 1000 THEN 1000
    ELSE IF d <= 2000 THEN 500
    ELSE 0

\* branch data_source == 'f_data_fundamental' (lines 420-469)
FundamentalRubric(in) ==
    RoeScore(Get(in, "roe"), 12000, 8000)
    + BandScore(Get(in, "per"), 100, 150, 250, 9000, 6000, 3000)
    + BandScore(Get(in, "pbr"), 10, 15, 30, 9000, 6000, 3000)

\* branch data_source == 'f_data_financial' (lines 471-550)
FinancialRubric(in) ==
    LET rev == Get(in, "revenue_yoy")
        op  == Get(in, "operating_profit_yoy")
    IN  RoeScore(Get(in, "roe"), 8000, 6000)
        + OpMarginScore(Get(in, "operating_margin"))
        + Min(IF rev >= 200 THEN 7000 ELSE IF rev >= 100 THEN 5000
              ELSE IF rev >= 50 THEN 3000 ELSE IF rev > 0 THEN rev * 60 ELSE 0, 7000)
        + Min(IF op >= 250 THEN 6000 ELSE IF op >= 150 THEN 4000
              ELSE IF op >= 50 THEN 2000 ELSE IF op > 0 THEN op * 40 ELSE 0, 6000)
        + DebtScore(Get(in, "debt_ratio"))

\* else-branch, 'roe' and 'debt_ratio' both present (lines 555-665)
FullRubric(in) ==
    LET sy == Get(in, "sales_yoy")
        sq == Get(in, "sales_qoq")
        oy == Get(in, "op_income_yoy")
        oq == Get(in, "op_income_qoq")
        sales_yoy_score == IF sy >= 200 THEN 5000 ELSE IF sy >= 100 THEN 4000
                           ELSE IF sy >= 50 THEN 3000 ELSE IF sy > 0 THEN sy * 60 ELSE 0
        sales_qoq_score == IF sq >= 100 THEN 2000 ELSE IF sq >= 50 THEN 1500
                           ELSE IF sq > 0 THEN sq * 30 ELSE 0
        op_yoy_score == IF oy >= 250 THEN 4000 ELSE IF oy >= 150 THEN 3000
                        ELSE IF oy >= 50 THEN 2000 ELSE IF oy > 0 THEN oy * 40 ELSE 0
        op_qoq_score == IF oq >= 150 THEN 2000 ELSE IF oq >= 50 THEN 1000
                        ELSE IF oq > 0 THEN oq * 20 ELSE 0
    IN  RoeScore(Get(in, "roe"), 8000, 6000)
        + OpMarginScore(Get(in, "operating_margin"))
        + Min(sales_yoy_score + sales_qoq_score, 7000)
        + Min(op_yoy_score + op_qoq_score, 6000)
        + DebtScore(Get(in, "debt_ratio"))

\* else-branch, 'per' or 'pbr' present (lines 668-720)
ValuationRubric(in) ==
    LET per == Get(in, "per")
        pbr == Get(in, "pbr")
        dy  == Get(in, "dividend_yield")
    IN  IF per = 0 /\ pbr = 0 /\ dy = 0 THEN 5000
        ELSE BandScore(per, 100, 150, 250, 12000, 8000, 4000)
             + BandScore(pbr, 10, 15, 30, 12000, 8000, 4000)
             + (IF dy >= 40 THEN 6000 ELSE IF dy >= 20 THEN 4000
                ELSE IF dy > 0 THEN dy * 200 ELSE 0)

\* The rubric branch the record is scored under.
RubricOf(in) ==
    IF ~in.present THEN "none"
    ELSE IF DataSourceOf(in) = "f_data_fundamental" THEN "fundamental"
    ELSE IF DataSourceOf(in) = "f_data_financial" THEN "financial"
    ELSE IF "roe" \in in.keys /\ "debt_ratio" \in in.keys THEN "full"
    ELSE IF "per" \in in.keys \/ "pbr" \in in.keys THEN "valuation"
    ELSE "insufficient"

FundamentalTotal(in) ==
    CASE RubricOf(in) = "none" -> 0
      [] RubricOf(in) = "fundamental" -> FundamentalRubric(in)
      [] RubricOf(in) = "financial" -> FinancialRubric(in)
      [] RubricOf(in) = "full" -> FullRubric(in)
      [] RubricOf(in) = "valuation" -> ValuationRubric(in)
      [] OTHER -> 3000

\* (the 3.0 floor given to a missing record too)
calculate_fundamental_score_floor(in) ==
    IF ~in.present THEN 30
    ELSE Min(RoundDiv(FundamentalTotal(in), 100), 300)

calculate_fundamental_score(in) ==
    IF ~in.present THEN 0
    ELSE Min(RoundDiv(FundamentalTotal(in), 100), 300)

\* The tags of the details dict: its 'data_source', and the 'message' it
\* carries (at top level for a missing record, in scores_detail for a record
\* without usable keys; "absent" otherwise).
FundamentalDetails(in) ==
    IF ~in.present THEN [data_source |-> "none", message |-> "no_financial_data"]
    ELSE [data_source |-> DataSourceOf(in),
          message |-> IF RubricOf(in) = "insufficient"
                      THEN "insufficient_financial_data" ELSE "absent"]

----------------------------------------------------------------------------
(* Inputs of the scoring functions *)

MaxPrice == 3       \* price levels 1..MaxPrice of Close / MA20 / MA60
GridPoints == 4     \* sub-score grid of calculate_total_score: 0, max/4, .., max

Prices == 1..MaxPrice
LenVals == {19, 20, 60, 120}
LowRatios == {-1, 119, 120, 130, 150}
VolRatios == {40, 50, 80, 100, 110, 130, 150, 200}

TrendInputs ==
    {[empty |-> TRUE, has_ma |-> FALSE, len |-> 0, Close |-> 1, MA20 |-> 1, MA60 |-> 1,
      up |-> {}, ma_raises |-> FALSE, low_ratio |-> -1, vr20 |-> -1, vr60 |-> 100]}
    \cup
    {r \in [empty : {FALSE}, has_ma : BOOLEAN, len : LenVals,
            Close : Prices, MA20 : Prices, MA60 : Prices,
            up : SUBSET {20, 60, 120}, ma_raises : BOOLEAN,
            low_ratio : LowRatios, vr20 : VolRatios \cup {-1}, vr60 : {100, 150}] :
        /\ ~r.has_ma => (r.Close = 1 /\ r.MA20 = 1 /\ r.MA60 = 1)
        /\ r.ma_raises => r.up = {}
        /\ r.vr20 = -1 => r.vr60 = 100}

PatternInputs == [vcp : BOOLEAN, pivot : BOOLEAN, breakout : BOOLEAN]

MaxPoints == 130
SeriesLens == {0, 1, 19, 20, 60, 120, MaxPoints}

\* Close series: a level p up to a row, a level q after it
CloseSeries ==
    {[k \in 1..len |-> IF k <= cut THEN p ELSE q] :
        len \in SeriesLens, cut \in SeriesLens, p \in Prices, q \in Prices}

\* (the pool sizes of the three universe classes taken as they are)
WorkerCountUncapped(total, max_workers) ==
    IF total > 2000 THEN 2
    ELSE IF total > 500 THEN 3
    ELSE 1

\* screener.py : run_screening, worker_count for a universe of `total` stocks
WorkerCount(total, max_workers) ==
    IF total > 2000 THEN Min(max_workers, 2)
    ELSE IF total > 500 THEN Min(max_workers, 3)
    ELSE Min(max_workers, 1)

MaxWorkers == 4

\* Two universes, of sizes around the class limits 500 and 2000, screened by
\* screeners built with the same max_workers
PoolInputs ==
    [total : {1, 500, 501, 2000, 2001, 3000}, other : {1, 500, 501, 2000, 2001, 3000},
     max_workers : 1..MaxWorkers]

MaxRows == 61
SurgeRatios == {100, 140, 160}
PriceChanges == {0, 30, 40}

\* Price frames given to the detectors, the empty frame included
Frames ==
    [len : 0..MaxRows, contracted : BOOLEAN, has_ma : BOOLEAN, c20 : BOOLEAN,
     m2060 : BOOLEAN, m60120 : BOOLEAN, vol : SurgeRatios, change : PriceChanges,
     close_breakout : BOOLEAN]

Spreads == {-100, 0, 1, 100, 199, 200, 299, 300, 400}

RsInputs ==
    {r \in [stock_empty : BOOLEAN, market_empty : BOOLEAN, has13 : BOOLEAN, has26 : BOOLEAN,
            rs13 : Spreads, rs26 : Spreads] :
        /\ (r.stock_empty \/ r.market_empty) =>
               (~r.has13 /\ ~r.has26 /\ ~(r.stock_empty /\ r.market_empty))
        /\ ~r.has13 => r.rs13 = 0
        /\ ~r.has26 => r.rs26 = 0}

NoInvestorData ==
    [present |-> FALSE, data_source |-> "none", foreign_net_buy |-> 0, foreign_ratio |-> 0,
     institution_net_buy |-> 0, institution_ratio |-> 0, net_buy_days |-> 0,
     foreign_buy_days |-> 0, institution_buy_days |-> 0,
     has_short |-> FALSE, short_selling_ratio |-> 0]

InvestorInputs ==
    {NoInvestorData}
    \cup
    {r \in [present : {TRUE}, data_source : {"default", "pykrx"},
            foreign_net_buy : {-1, 0, 1}, foreign_ratio : {0, 5, 10, 20, 50},
            institution_net_buy : {0, 1}, institution_ratio : {0, 3, 5, 15, 30},
            net_buy_days : {0, 3, 5, 10, 15},
            foreign_buy_days : {0, 3}, institution_buy_days : {0, 3},
            has_short : BOOLEAN, short_selling_ratio : {0, 10, 11, 30, 50, 100, 101}] :
        /\ ~r.has_short => r.short_selling_ratio = 0
        /\ r.has_short => r.short_selling_ratio > 0
        /\ r.foreign_buy_days = 0 => r.institution_buy_days = 0}

FinKeys == {"roe", "per", "pbr", "debt_ratio", "operating_margin", "dividend_yield",
            "revenue_yoy", "operating_profit_yoy",
            "sales_yoy", "sales_qoq", "op_income_yoy", "op_income_qoq"}

NoFinancialData ==
    [present |-> FALSE, source |-> "absent", data_source |-> "absent",
     keys |-> {}, val |-> [k \in FinKeys |-> 0]]

\* A record with the given tags whose keys are the domain of f.
FinRecord(source, data_source, f) ==
    [present |-> TRUE, source |-> source, data_source |-> data_source,
     keys |-> DOMAIN f,
     val |-> [k \in FinKeys |-> IF k \in DOMAIN f THEN f[k] ELSE 0]]

PerVals == {0, 50, 100, 101, 150, 250, 260}
PbrVals == {0, 5, 10, 11, 15, 30, 31}

FundamentalInputs ==
    {NoFinancialData}
    \cup
    \* ROE / PER / PBR records, with and without a 'source' key of their own
    {FinRecord(t[1], t[2], [roe |-> a, per |-> b, pbr |-> c]) :
        t \in {<<"absent", "f_data_fundamental">>,
               <<"fundamental_data_202506", "f_data_fundamental">>},
        a \in {-10, 0, 25, 50, 100, 150}, b \in PerVals, c \in PbrVals}
    \cup
    \* quarterly-statement records
    {FinRecord("absent", "f_data_financial",
               [roe |-> v[1], operating_margin |-> v[2], revenue_yoy |-> v[3],
                operating_profit_yoy |-> v[4], debt_ratio |-> v[5]]) :
        v \in {0, 25, 100, 150} \X {0, 10, 50, 100} \X {0, 30, 100, 200}
              \X {0, 30, 150, 250} \X {300, 500, 1000, 2001}}
    \cup
    \* records of the other sources with roe and debt_ratio
    {FinRecord(t[1], t[2],
               [roe |-> v[1], debt_ratio |-> v[2], operating_margin |-> v[3],
                sales_yoy |-> v[4], sales_qoq |-> v[5],
                op_income_yoy |-> v[6], op_income_qoq |-> v[7]]) :
        t \in {<<"estimated_tech", "estimate_tech">>, <<"absent", "collected_data.json">>},
        v \in {0, 40, 150} \X {300, 1000, 2001} \X {0, 10, 100} \X {0, 30, 200}
              \X {0, 30, 100} \X {0, 30, 250} \X {0, 30, 150}}
    \cup
    \* valuation-only records
    {FinRecord("pykrx_fundamental", "absent",
               [per |-> a, pbr |-> b, dividend_yield |-> c]) :
        a \in PerVals, b \in PbrVals, c \in {0, 10, 20, 40}}
    \cup
    \* records without any scored key
    {FinRecord(t[1], t[2], <<>>) :
        t \in {<<"absent", "absent">>, <<"financial_data_opendart_20250605", "f_data_financial">>}}

SubScoreMax == [trend |-> 250, pattern |-> 200, rs |-> 250, fundamental |-> 300, investor |-> 120]

Grid(max) == {(max * k) \div GridPoints : k \in 0..GridPoints}

TotalInputs ==
    [trend : Grid(SubScoreMax.trend), pattern : Grid(SubScoreMax.pattern),
     rs : Grid(SubScoreMax.rs), fundamental : Grid(SubScoreMax.fundamental),
     investor : Grid(SubScoreMax.investor)]

----------------------------------------------------------------------------
(* Values of the variables a specification does not use *)

\* A stock code is a string, modelled as its sequence of characters.
DigitChars == <<"0", "1", "2", "3", "4", "5", "6", "7", "8", "9">>

IsDigit(c) == \E k \in 1..Len(DigitChars) : DigitChars[k] = c

DigitValue(c) == (CHOOSE k \in 1..Len(DigitChars) : DigitChars[k] = c) - 1

\* int(code) succeeds: the code is a non-empty string of digits
IsNumeric(code) == Len(code) > 0 /\ \A k \in 1..Len(code) : IsDigit(code[k])

\* int(code) of a numeric code
RECURSIVE CodeInt(_)
CodeInt(code) ==
    IF code = <<>> THEN 0
    ELSE 10 * CodeInt(SubSeq(code, 1, Len(code) - 1)) + DigitValue(code[Len(code)])

\* str(code).zfill(6)
RECURSIVE Zfill6(_)
Zfill6(code) == IF Len(code) >= 6 THEN code ELSE Zfill6(<<"0">> \o code)

\* The codes get_financial_statement is called with for the cache checks:
\* "005930", and the same symbol without its leading zeros.
Codes == {<<"0", "0", "5", "9", "3", "0">>, <<"5", "9", "3", "0">>}

\* The codes for the check of the chain on a collector without cache files:
\* codes inside and outside the sector ranges, non-numeric and empty codes.
AnyCodes ==
    Codes \cup
    {<<"0", "0", "0", "6", "6", "0">>, <<"0", "3", "5", "4", "2", "0">>,
     <<"2", "4", "7", "5", "4", "0">>, <<"1", "4", "5", "0", "2", "0">>,
     <<"0", "6", "0", "0", "0", "0">>, <<"0", "1", "2", "3", "4", "5">>,
     <<"A", "B", "C">>, <<"0", "0", "5", "9", "3", "A">>, <<>>}

\* The keys of the financial cache files: the zero-filled codes.
Symbols == {Zfill6(code) : code \in AnyCodes}
NoRecord == [tier |-> "none"]
NoEntry == [tier |-> "none", rec |-> NoRecord, age |-> 0]
IdleCall == [state |-> "idle"]
IdleCalc == [fn |-> "idle"]
IdleTask == [index |-> 0]

ScoreIdle == calc = IdleCalc
ResolverIdle ==
    /\ cache = [s \in Symbols |-> NoEntry]
    /\ call = IdleCall
    /\ flags = [dart_fss |-> FALSE, api_key |-> FALSE]
NoFiles == [results_file |-> <<>>, details_file |-> <<>>]

RunIdle ==
    /\ pc = "idle"
    /\ total_stocks = 0
    /\ future = <<>>
    /\ completed = <<>>
    /\ task = IdleTask
    /\ worker_count = 0
    /\ total_score_threshold = 0
    /\ all_results = <<>>
    /\ processed_count = 0
    /\ success_count = 0
    /\ error_count = 0
    /\ returned = <<>>
    /\ files = NoFiles

----------------------------------------------------------------------------
(* SpecScore: one call of one scoring function on one input *)

Called(fn, in, out) == calc' = [fn |-> fn, in |-> in, out |-> out]

CalcTrend ==
    /\ calc = IdleCalc
    /\ \E in \in TrendInputs : Called("trend", in, calculate_trend_score(in))
    /\ UNCHANGED <<resolverVars, runVars>>

CalcPattern ==
    /\ calc = IdleCalc
    /\ \E in \in PatternInputs : Called("pattern", in, calculate_pattern_score(in))
    /\ UNCHANGED <<resolverVars, runVars>>

CalcIndicators ==
    /\ calc = IdleCalc
    /\ \E close \in CloseSeries :
          LET df == calculate_indicators(close)
          IN  Called("indicators", close,
                     [df |-> df, ma_alignment_score |-> ma_alignment_score(df)])
    /\ UNCHANGED <<resolverVars, runVars>>

ChoosePool ==
    /\ calc = IdleCalc
    /\ \E in \in PoolInputs :
          Called("worker_count", in,
                 [pool |-> WorkerCount(in.total, in.max_workers),
                  other_pool |-> WorkerCount(in.other, in.max_workers)])
    /\ UNCHANGED <<resolverVars, runVars>>

DetectVcp ==
    /\ calc = IdleCalc
    /\ \E df \in Frames : Called("detect_vcp", df, detect_vcp(df))
    /\ UNCHANGED <<resolverVars, runVars>>

DetectPocketPivot ==
    /\ calc = IdleCalc
    /\ \E df \in Frames : Called("detect_pocket_pivot", df, detect_pocket_pivot(df))
    /\ UNCHANGED <<resolverVars, runVars>>

DetectBreakout ==
    /\ calc = IdleCalc
    /\ \E df \in Frames : Called("detect_breakout", df, detect_breakout(df))
    /\ UNCHANGED <<resolverVars, runVars>>

CalcRs ==
    /\ calc = IdleCalc
    /\ \E in \in RsInputs : Called("rs", in, calculate_rs_score(in))
    /\ UNCHANGED <<resolverVars, runVars>>

CalcFundamental ==
    /\ calc = IdleCalc
    /\ \E in \in FundamentalInputs : Called("fundamental", in, calculate_fundamental_score(in))
    /\ UNCHANGED <<resolverVars, runVars>>

CalcInvestor ==
    /\ calc = IdleCalc
    /\ \E in \in InvestorInputs : Called("investor", in, calculate_investor_score(in))
    /\ UNCHANGED <<resolverVars, runVars>>

CalcTotal ==
    /\ calc = IdleCalc
    /\ \E in \in TotalInputs :
          Called("total", in,
                 calculate_total_score(in.trend, in.pattern, in.rs, in.fundamental, in.investor))
    /\ UNCHANGED <<resolverVars, runVars>>

InitScore == ScoreIdle /\ ResolverIdle /\ RunIdle

NextScore ==
    \/ CalcTrend
    \/ CalcPattern
    \/ ChoosePool
    \/ CalcIndicators
    \/ DetectVcp
    \/ DetectPocketPivot
    \/ DetectBreakout
    \/ CalcRs
    \/ CalcFundamental
    \/ CalcInvestor
    \/ CalcTotal

SpecScore == InitScore /\ [][NextScore]_vars

----------------------------------------------------------------------------
(* Claims on the score calculator *)

\* C6: for sub-scores within their ranges calculate_total_score is raw/112*100
\* rounded to one decimal (within half a tenth of the exact value) and capped
\* at 100; it lies in [0, 100], is 100.0 when every sub-score is at its
\* maximum and 0.0 when every sub-score is 0.
C6_CompositeScore ==
    calc.fn = "total" =>
        LET in == calc.in
            raw == in.trend + in.pattern + in.rs + in.fundamental + in.investor
            AllMax == /\ in.trend = 250 /\ in.pattern = 200 /\ in.rs = 250
                      /\ in.fundamental = 300 /\ in.investor = 120
        IN  /\ 0 <= calc.out /\ calc.out <= 1000
            /\ 28 * calc.out - 25 * raw <= 14
            /\ 25 * raw - 28 * calc.out <= 14
            /\ AllMax => calc.out = 1000
            /\ raw = 0 => calc.out = 0

C6_Witness ==
    /\ calc.fn = "total"
    /\ calc.in = [trend |-> 250, pattern |-> 200, rs |-> 250, fundamental |-> 300,
                  investor |-> 120]
    /\ calc.out = 1000

\* C7: every sub-score lies within its range: trend [0, 25], pattern [0, 20],
\* relative strength [0, 25], fundamental [0, 30] under every rubric branch,
\* investor flow [0, 12].
C7_SubScoreBounds ==
    /\ calc.fn = "trend" => (0 <= calc.out /\ calc.out <= 250)
    /\ calc.fn = "pattern" => (0 <= calc.out /\ calc.out <= 200)
    /\ calc.fn = "rs" => (0 <= calc.out /\ calc.out <= 250)
    /\ calc.fn = "fundamental" => (0 <= calc.out /\ calc.out <= 300)
    /\ calc.fn = "investor" => (0 <= calc.out /\ calc.out <= 120)

C7_Witness ==
    /\ calc.fn = "fundamental"
    /\ RubricOf(calc.in) = "full"
    /\ calc.out = 300

\* C11 (as the code has it): for a missing record (None or empty) the
\* fundamental sub-score is 0.0 and the details carry data_source 'none' and
\* a no-data message; the floor of 3.0 goes to a non-empty record that has no
\* snapshot tag, not both roe and debt_ratio, and neither per nor pbr, with
\* an insufficient-data message in its details.
C11_NoDataScore ==
    calc.fn = "fundamental" =>
        /\ ~calc.in.present =>
              /\ calc.out = 0
              /\ FundamentalDetails(calc.in) =
                    [data_source |-> "none", message |-> "no_financial_data"]
        /\ (calc.in.present /\ RubricOf(calc.in) = "insufficient") =>
              /\ calc.out = 30
              /\ FundamentalDetails(calc.in).message = "insufficient_financial_data"
        /\ (calc.in.present /\ RubricOf(calc.in) # "insufficient") =>
              FundamentalDetails(calc.in).message = "absent"

\* The calculator was given no record and returned 0.0.
C11_Witness ==
    /\ calc.fn = "fundamental"
    /\ ~calc.in.present
    /\ calc.out = 0

\* C11 (as stated): for a missing record the fundamental sub-score is a floor
\* strictly greater than zero.
C11_FloorAboveZero ==
    (calc.fn = "fundamental" /\ ~calc.in.present) => calc.out > 0

\* The points the fields of a flow record would earn if they were scored
FieldPoints(in) ==
    ForeignScore(in) + InstitutionScore(in) + ConsecutiveScore(in) + ShortScore(in)

\* C15: for the placeholder flow record (data_source 'default')
\* calculate_investor_score returns 0 whatever its other fields hold.
C15_PlaceholderFlow ==
    (calc.fn = "investor" /\ calc.in.present /\ calc.in.data_source = "default") =>
        calc.out = 0

\* A placeholder record whose fields would earn the full 12 points got 0.
C15_Witness ==
    /\ calc.fn = "investor"
    /\ calc.in.present
    /\ calc.in.data_source = "default"
    /\ FieldPoints(calc.in) = InvestorMaxPoints
    /\ calc.out = 0

\* The points of a flow record that do not come from the foreign fields
FlowWithoutForeign(in) == InstitutionScore(in) + ConsecutiveScore(in) + ShortScore(in)

\* The foreign ratio tiers, ratio in tenths of a percent, points in tenths
ForeignTier(ratio) ==
    IF ratio >= 50 THEN 40 ELSE IF ratio >= 20 THEN 30 ELSE IF ratio >= 10 THEN 20
    ELSE IF ratio > 0 THEN 10 ELSE 0

\* C16: in the investor score of a fetched record the foreign fields add
\* nothing when foreign_net_buy <= 0, for every foreign_ratio; when
\* foreign_net_buy > 0 they add the ratio tier (>=5 -> 4, >=2 -> 3, >=1 -> 2,
\* >0 -> 1).
C16_ForeignGating ==
    (calc.fn = "investor" /\ calc.in.present /\ calc.in.data_source # "default") =>
        calc.out = FlowWithoutForeign(calc.in)
                   + (IF calc.in.foreign_net_buy > 0 THEN ForeignTier(calc.in.foreign_ratio)
                      ELSE 0)

\* A record with foreign_net_buy = 0 and a foreign ratio of the top tier
\* was scored without foreign points.
C16_Witness ==
    /\ calc.fn = "investor"
    /\ calc.in.present
    /\ calc.in.data_source # "default"
    /\ calc.in.foreign_net_buy = 0
    /\ calc.in.foreign_ratio >= 50
    /\ calc.out = FlowWithoutForeign(calc.in)
    /\ calc.out > 0

\* The close is the same at every row of the series
IsConstant(close) == \A k \in 1..Len(close) : close[k] = close[1]

\* A rolling mean equals the value
MeanIs(mean, value) == mean.sum = value * mean.n

\* C17: for a series whose close is the same value at every point,
\* calculate_indicators gives MA20 = MA60 = MA120 = that value at every point
\* and the MA-alignment component of the trend score is 0.
C17_ConstantSeries ==
    (calc.fn = "indicators" /\ calc.in # <<>> /\ IsConstant(calc.in)) =>
        /\ \A k \in 1..Len(calc.in) :
              /\ MeanIs(calc.out.df[k].MA20, calc.in[1])
              /\ MeanIs(calc.out.df[k].MA60, calc.in[1])
              /\ MeanIs(calc.out.df[k].MA120, calc.in[1])
        /\ calc.out.ma_alignment_score = 0

\* A constant series of 130 points or more went through calculate_indicators.
C17_Witness ==
    /\ calc.fn = "indicators"
    /\ Len(calc.in) >= 130
    /\ IsConstant(calc.in)
    /\ Len(calc.out.df) = Len(calc.in)
    /\ calc.out.ma_alignment_score = 0

\* The record is one get_f_data_fundamental returns: the snapshot entry with
\* its 'source' and the 'data_source' the tier adds
FromFundamentalsSnapshot(in) ==
    in.present /\ in.source = "fundamental_data_202506" /\ in.data_source = "f_data_fundamental"

\* The record is one get_f_data_financial returns: the converted latest
\* quarter (no 'source' key) or the snapshot entry as it is
FromQuarterlySnapshot(in) ==
    /\ in.present /\ in.data_source = "f_data_financial"
    /\ in.source \in {"absent", "financial_data_opendart_20250605"}

\* C18: a record won by the fundamentals-snapshot tier is scored with the
\* ROE/PER/PBR rubric (12/9/9) and a record won by the quarterly-snapshot
\* tier with the ROE/margin/revenue growth/profit growth/debt rubric
\* (8/7/7/6/2).
C18_RubricFollowsTier ==
    calc.fn = "fundamental" =>
        /\ FromFundamentalsSnapshot(calc.in) =>
              calc.out = Min(RoundDiv(FundamentalRubric(calc.in), 100), 300)
        /\ FromQuarterlySnapshot(calc.in) =>
              calc.out = Min(RoundDiv(FinancialRubric(calc.in), 100), 300)

\* The window below which a detector has too little history
MinimumWindow(fn) ==
    CASE fn = "detect_vcp" -> VcpWindow
      [] fn = "detect_pocket_pivot" -> PivotWindow
      [] fn = "detect_breakout" -> BreakoutWindow

Detectors == {"detect_vcp", "detect_pocket_pivot", "detect_breakout"}

\* C14: on a frame shorter than its window, the empty frame included, each
\* of detect_vcp, detect_pocket_pivot and detect_breakout raises nothing and
\* returns found = False with an empty evidence dict.
C14_ShortHistory ==
    (calc.fn \in Detectors /\ calc.in.len < MinimumWindow(calc.fn)) =>
        /\ ~calc.out.raised
        /\ ~calc.out.found
        /\ calc.out.data = {}

\* A frame one row short of the window whose latest row meets every pocket
\* pivot condition, and the empty frame's case is reached as well.
C14_Witness ==
    /\ calc.fn = "detect_pocket_pivot"
    /\ calc.in.len = PivotWindow - 1
    /\ calc.in.has_ma /\ calc.in.vol > 150 /\ PriceUp(calc.in)
    /\ calc.in.c20 /\ calc.in.m2060
    /\ calc.out = NotFound

----------------------------------------------------------------------------
(* financial_data.py : get_financial_statement                             *)
(*                                                                         *)
(* A call's environment (what the data sources answer for the symbol):     *)
(*   env.has    the tiers among SourceTiers that yield a record            *)
(*   env.pykrx  the answer of get_market_fundamental_data                  *)
(* flags.dart_fss is DART_FSS_AVAILABLE, flags.api_key is bool(api_key).   *)

TTL_DAYS == 7       \* timedelta(days=7)
MaxAge == 8         \* ages of a cache file are counted in days, up to MaxAge

\* The tiers in the order get_financial_statement tries them.
ChainOrderFundamentalFirst ==
    <<"f_data_fundamental", "f_data_financial", "specified_json", "financial_data_folder",
      "dart_fss", "pykrx_market", "dart_api", "default">>

ChainOrder ==
    <<"f_data_financial", "f_data_fundamental", "specified_json", "financial_data_folder",
      "dart_fss", "pykrx_market", "dart_api", "default">>

\* Tiers whose answer depends on the data they hold for the symbol.
SourceTiers == {"f_data_financial", "f_data_fundamental", "specified_json", "dart_fss"}

\* get_market_fundamental_data always returns a dict; the fields are 0 unless
\* the symbol is in the market table (values in tenths).
PykrxResponses ==
    {[source |-> "default", per |-> 0, pbr |-> 0, eps |-> 0, bps |-> 0, dividend_yield |-> 0],
     [source |-> "pykrx_fundamental", per |-> 0, pbr |-> 0, eps |-> -50, bps |-> 0,
      dividend_yield |-> 0],
     [source |-> "pykrx_fundamental", per |-> 120, pbr |-> 11, eps |-> 0, bps |-> 0,
      dividend_yield |-> 0],
     [source |-> "pykrx_fundamental", per |-> 120, pbr |-> 11, eps |-> 50, bps |-> 400,
      dividend_yield |-> 20]}

\* (has_meaningful_data looking at the estimated fields only: roe and
\* operating_margin, and the growth estimated from the dividend yield)
HasMeaningfulDataEstimatedOnly(p) ==
    \/ (p.eps > 0 /\ p.bps > 0)
    \/ p.dividend_yield > 0

\* has_meaningful_data (lines 538-541); roe and operating_margin exist only
\* when eps > 0 and bps > 0, and are then positive.
HasMeaningfulData(p) ==
    \/ p.per > 0 \/ p.pbr > 0 \/ p.eps > 0 \/ p.bps > 0
    \/ (p.eps > 0 /\ p.bps > 0)
    \/ p.dividend_yield > 0

\* _generate_default_financial_data.estimate_sector, on int(code)
EstimateSector(n) ==
    IF n >= 140000 /\ n <= 150000 THEN "tech"
    ELSE IF n >= 200000 /\ n <= 300000 THEN "tech"
    ELSE IF n >= 5000 /\ n <= 10000 THEN "manufacturing"
    ELSE IF n >= 30000 /\ n <= 40000 THEN "tech"
    ELSE IF n >= 50000 /\ n <= 70000 THEN "manufacturing"
    ELSE "default"

\* 'source' and 'data_source' of the estimated record of a sector
EstimatedTags(sector) ==
    CASE sector = "tech" -> <<"estimated_tech", "estimate_tech">>
      [] sector = "manufacturing" -> <<"estimated_manufacturing", "estimate_manufacturing">>
      [] OTHER -> <<"estimated_default", "estimate_default">>

\* _generate_default_financial_data: the tags of the record.  int(code)
\* raises on a non-numeric code; the except branch returns the minimal
\* default record, which has a 'source' and no 'data_source'.
NoTags == <<"none", "none">>

\* (int(code) raising out of _generate_default_financial_data)
generate_default_financial_data_raising(code) ==
    IF IsNumeric(code) THEN EstimatedTags(EstimateSector(CodeInt(code)))
    ELSE NoTags

generate_default_financial_data(code) ==
    IF IsNumeric(code) THEN EstimatedTags(EstimateSector(CodeInt(code)))
    ELSE <<"minimal_default", "absent">>

\* Is the `if financial_data is None and <guard>` of the tier passed?
TierEnabled(t, fl) ==
    CASE t = "dart_fss" -> fl.dart_fss
      [] t = "dart_api" -> fl.api_key
      [] OTHER -> TRUE

\* Does the tier, once attempted, leave a usable record in financial_data?
\*  - financial_data_folder: _normalize_financial_data reads data.index of a
\*    dict and _extract_financial_data_from_row does not exist; both raise,
\*    are caught, and the tier returns None.
\*  - dart_api: get_corp_code reads self.corp_code_map, which is never
\*    assigned; the AttributeError is caught and the tier returns None.
\*  - dart_fss: get_dart_fss_financial_data returns None without an api key.
\*  - default: whatever _generate_default_financial_data returns.
\*  - a tier of env.raises holds data for the symbol that does not have the
\*    expected shape: reading it raises, the tier's except catches it and
\*    financial_data stays None.

\* (a tier whose exception is caught with its partial record kept)
TierYieldsDespiteRaise(t, code, env, fl) ==
    CASE t = "financial_data_folder" -> FALSE
      [] t = "dart_api" -> FALSE
      [] t = "dart_fss" -> fl.api_key /\ t \in env.has
      [] t = "pykrx_market" -> HasMeaningfulData(env.pykrx)
      [] t = "default" -> generate_default_financial_data(code) # NoTags
      [] OTHER -> t \in env.has

TierYields(t, code, env, fl) ==
    CASE t = "financial_data_folder" -> FALSE
      [] t = "dart_api" -> FALSE
      [] t = "dart_fss" -> fl.api_key /\ t \in env.has /\ t \notin env.raises
      [] t = "pykrx_market" -> HasMeaningfulData(env.pykrx)
      [] t = "default" -> generate_default_financial_data(code) # NoTags
      [] OTHER -> t \in env.has /\ t \notin env.raises

\* The record a tier returns for a symbol: the tier that built it, the
\* symbol, and its provenance keys ('source', 'data_source'; "absent" when
\* the record has no such key).
TierOutput(t, code, env) ==
    LET tags ==
        CASE t = "f_data_financial" -> <<"absent", "f_data_financial">>
          [] t = "f_data_fundamental" -> <<"fundamental_data_202506", "f_data_fundamental">>
          [] t = "specified_json" -> <<"absent", "specified_JSON">>
          [] t = "financial_data_folder" -> <<"absent", "collected_data.json">>
          [] t = "dart_fss" -> <<"dart-fss", "absent">>
          [] t = "pykrx_market" -> <<env.pykrx.source, "absent">>
          [] t = "dart_api" -> <<"absent", "absent">>
          [] OTHER -> generate_default_financial_data(code)
    IN  [tier |-> t, code |-> code, source |-> tags[1], data_source |-> tags[2],
         cached_at |-> FALSE]

\* The chain from position i on: the tiers attempted, in order, ending with
\* the first that yields.
RECURSIVE AttemptsFrom(_, _, _, _)
AttemptsFrom(i, code, env, fl) ==
    IF i > Len(ChainOrder) THEN <<>>
    ELSE LET t == ChainOrder[i]
         IN  IF ~TierEnabled(t, fl) THEN AttemptsFrom(i + 1, code, env, fl)
             ELSE IF TierYields(t, code, env, fl) THEN <<t>>
             ELSE <<t>> \o AttemptsFrom(i + 1, code, env, fl)

\* (a chain that goes straight to the sector defaults)
AttemptsDefaultOnly(code, env, fl) == <<"default">>

Attempts(code, env, fl) == AttemptsFrom(1, code, env, fl)

\* (an entry of exactly 7 days still counted as fresh)
CacheFreshInclusive(entry) == entry.tier # "none" /\ entry.age <= TTL_DAYS

\* _get_from_financial_cache: the entry, if it exists and is younger than 7 days
CacheFresh(entry) == entry.tier # "none" /\ entry.age < TTL_DAYS

\* What the lookup found: "skipped" under force_update, else the entry's state
CacheLooked(force_update, entry) ==
    IF force_update THEN "skipped"
    ELSE IF entry.tier = "none" THEN "missing"
    ELSE IF entry.age < TTL_DAYS THEN "fresh" ELSE "stale"

\* The environments of one call: the tiers that hold data for the symbol,
\* the market table's answer, and the tiers whose data is malformed.
Envs == [has : SUBSET SourceTiers, pykrx : PykrxResponses, raises : {{}}]

ChainEnvs ==
    {e \in [has : SUBSET SourceTiers, pykrx : PykrxResponses, raises : SUBSET SourceTiers] :
        e.raises \subseteq e.has}

\* _save_to_financial_cache: a copy of the record with its 'cached_at' stamp
CacheCopy(rec) == [rec EXCEPT !.cached_at = TRUE]

\* (get_financial_statement keeping the sector-default estimate out of the
\* cache)
get_financial_statement_estimate_uncached(code, force_update, env) ==
    LET formatted_code == Zfill6(code)
        entry == cache[formatted_code]
        hit == ~force_update /\ CacheFresh(entry)
        attempted == Attempts(formatted_code, env, flags)
        winner == attempted[Len(attempted)]
        found == TierYields(winner, formatted_code, env, flags)
        financial_data == TierOutput(winner, formatted_code, env)
    IN  /\ call = IdleCall
        /\ IF hit
           THEN /\ call' = [state |-> "returned", code |-> code,
                            force_update |-> force_update, env |-> env,
                            looked |-> CacheLooked(force_update, entry),
                            attempted |-> <<>>, result |-> entry.rec]
                /\ UNCHANGED cache
           ELSE IF ~found
           THEN /\ call' = [state |-> "returned", code |-> code,
                            force_update |-> force_update, env |-> env,
                            looked |-> CacheLooked(force_update, entry),
                            attempted |-> attempted, result |-> NoRecord]
                /\ UNCHANGED cache
           ELSE /\ call' = [state |-> "returned", code |-> code,
                            force_update |-> force_update, env |-> env,
                            looked |-> CacheLooked(force_update, entry),
                            attempted |-> attempted, result |-> financial_data]
                /\ cache' = IF winner = "default" THEN cache
                            ELSE [cache EXCEPT ![formatted_code] =
                                     [tier |-> winner, rec |-> CacheCopy(financial_data),
                                      age |-> 0]]
        /\ UNCHANGED <<flags, calc, runVars>>

\* get_financial_statement(code, force_update), whole: the cache lookup, the
\* chain, and the cache write of the chain's record.  It returns None
\* (NoRecord) when the chain ends with financial_data still None.
get_financial_statement(code, force_update, env) ==
    LET formatted_code == Zfill6(code)
        entry == cache[formatted_code]
        hit == ~force_update /\ CacheFresh(entry)
        attempted == Attempts(formatted_code, env, flags)
        winner == attempted[Len(attempted)]
        found == TierYields(winner, formatted_code, env, flags)
        financial_data == TierOutput(winner, formatted_code, env)
    IN  /\ call = IdleCall
        /\ IF hit
           THEN /\ call' = [state |-> "returned", code |-> code,
                            force_update |-> force_update, env |-> env,
                            looked |-> CacheLooked(force_update, entry),
                            attempted |-> <<>>, result |-> entry.rec]
                /\ UNCHANGED cache
           ELSE IF ~found
           THEN /\ call' = [state |-> "returned", code |-> code,
                            force_update |-> force_update, env |-> env,
                            looked |-> CacheLooked(force_update, entry),
                            attempted |-> attempted, result |-> NoRecord]
                /\ UNCHANGED cache
           ELSE /\ call' = [state |-> "returned", code |-> code,
                            force_update |-> force_update, env |-> env,
                            looked |-> CacheLooked(force_update, entry),
                            attempted |-> attempted, result |-> financial_data]
                /\ cache' = [cache EXCEPT ![formatted_code] =
                                [tier |-> winner, rec |-> CacheCopy(financial_data),
                                 age |-> 0]]
        /\ UNCHANGED <<flags, calc, runVars>>

Resolve ==
    /\ call = IdleCall
    /\ \E code \in Codes, force_update \in BOOLEAN, env \in Envs :
          get_financial_statement(code, force_update, env)

\* The caller takes the record; the collector is ready for the next call.
Return ==
    /\ call # IdleCall
    /\ call' = IdleCall
    /\ UNCHANGED <<cache, flags, calc, runVars>>

\* A day passes: every cache file is a day older.
Tick ==
    /\ call = IdleCall
    /\ \E c \in Symbols : cache[c].tier # "none" /\ cache[c].age < MaxAge
    /\ cache' = [c \in Symbols |->
                    IF cache[c].tier # "none" /\ cache[c].age < MaxAge
                    THEN [cache[c] EXCEPT !.age = @ + 1] ELSE cache[c]]
    /\ UNCHANGED <<call, flags, calc, runVars>>

InitResolver ==
    /\ ScoreIdle /\ RunIdle
    /\ cache = [c \in Symbols |-> NoEntry]
    /\ call = IdleCall
    /\ flags \in [dart_fss : BOOLEAN, api_key : BOOLEAN]

NextResolver == Resolve \/ Return \/ Tick

SpecResolver == InitResolver /\ [][NextResolver]_vars

\* One call on a collector without cache files, for any code.
ResolveAny ==
    /\ call = IdleCall
    /\ \E code \in AnyCodes, force_update \in BOOLEAN, env \in ChainEnvs :
          get_financial_statement(code, force_update, env)

NextChain == ResolveAny

SpecChain == InitResolver /\ [][NextChain]_vars

----------------------------------------------------------------------------
(* Properties of the resolver                                              *)

\* The call has returned after running the chain (no cache hit).
ChainRan == call.state = "returned" /\ call.attempted # <<>>

\* Position of a tier in a sequence of tiers (0 if it is not in it)
PosIn(t, order) ==
    IF \E i \in 1..Len(order) : order[i] = t
    THEN CHOOSE i \in 1..Len(order) : order[i] = t ELSE 0

\* The order the chain follows: quarterly-financials snapshot, fundamentals
\* snapshot, dataset files (pre-loaded JSON, then the data folder), dart-fss
\* registry financials, market multiples, direct registry API, sector defaults.
QuarterlyFirstOrder ==
    <<"f_data_financial", "f_data_fundamental", "specified_json", "financial_data_folder",
      "dart_fss", "pykrx_market", "dart_api", "default">>

\* The order of the six documented tiers: fundamentals snapshot, quarterly
\* snapshot, dataset files, registry API, market multiples, sector defaults.
FundamentalsFirstOrder ==
    <<"f_data_fundamental", "f_data_financial", "specified_json", "financial_data_folder",
      "dart_fss", "dart_api", "pykrx_market", "default">>

\* The chain attempted its tiers in the given order, skipping only tiers
\* whose guard is off, and returned the record of the first that has data.
FollowsOrder(order) ==
    LET a == call.attempted
        w == a[Len(a)]
    IN  /\ \A i, j \in 1..Len(a) : i < j => PosIn(a[i], order) < PosIn(a[j], order)
        /\ \A i \in 1..Len(order) :
              (i <= PosIn(w, order) /\ TierEnabled(order[i], flags))
                  => \E k \in 1..Len(a) : a[k] = order[i]
        /\ \A k \in 1..(Len(a) - 1) : ~TierYields(a[k], Zfill6(call.code), call.env, flags)
        /\ TierYields(w, Zfill6(call.code), call.env, flags)
        /\ call.result.tier = w

\* C1 (as the code has it): without a fresh cache entry the chain attempts
\* its tiers in the strict order quarterly snapshot, fundamentals snapshot,
\* dataset files, dart-fss registry financials, market multiples, direct
\* registry API, sector defaults, and returns the record of the first tier in
\* that order that has data; when both snapshots hold the symbol the
\* quarterly-snapshot record is returned, and the direct registry API call
\* comes after the market multiples.
C1_TierPriority ==
    ChainRan =>
        /\ FollowsOrder(QuarterlyFirstOrder)
        /\ {"f_data_fundamental", "f_data_financial"} \subseteq call.env.has
              => call.result.tier = "f_data_financial"
        /\ LET a == call.attempted
           IN  \A i, j \in 1..Len(a) :
                  (a[i] = "pykrx_market" /\ a[j] = "dart_api") => i < j

\* Both snapshots held the symbol and the chain returned a record.
C1_Witness ==
    /\ ChainRan
    /\ {"f_data_fundamental", "f_data_financial"} \subseteq call.env.has
    /\ call.result.tier = "f_data_financial"

\* C1 as stated: the chain follows the order fundamentals snapshot, quarterly
\* snapshot, dataset files, registry API, market multiples, sector defaults,
\* and the fundamentals-snapshot record wins when both snapshots hold the symbol.
C1_FundamentalsFirst ==
    ChainRan =>
        /\ FollowsOrder(FundamentalsFirstOrder)
        /\ {"f_data_fundamental", "f_data_financial"} \subseteq call.env.has
              => call.result.tier = "f_data_fundamental"

\* The tier a record's provenance tag names
TierOfTag(tag) ==
    CASE tag = "f_data_financial" -> "f_data_financial"
      [] tag = "fundamental_data_202506" -> "f_data_fundamental"
      [] tag = "specified_JSON" -> "specified_json"
      [] tag = "dart-fss" -> "dart_fss"
      [] tag \in {"pykrx_fundamental", "pykrx_market_cap"} -> "pykrx_market"
      [] tag \in {"estimated_tech", "estimated_manufacturing", "estimated_default"}
            -> "default"
      [] OTHER -> "none"

C8_CacheFreshness ==
    [][(call = IdleCall /\ call' # IdleCall /\ ~call'.force_update) =>
          LET entry == cache[Zfill6(call'.code)]
              after == cache'[Zfill6(call'.code)]
          IN  /\ (entry.tier # "none" /\ entry.age < 7) =>
                    /\ call'.attempted = <<>>
                    /\ call'.result = entry.rec
                    /\ cache' = cache
              /\ (entry.tier # "none" /\ entry.age >= 7) =>
                    /\ call'.attempted # <<>>
                    /\ ~call'.result.cached_at
                    /\ after.rec = CacheCopy(call'.result)
                    /\ after.age = 0]_vars

\* An entry that had reached 7 days was looked up; the chain ran and the
\* entry is the new record, just written.
C8_Witness ==
    /\ ChainRan
    /\ call.looked = "stale"
    /\ cache[Zfill6(call.code)].age = 0
    /\ cache[Zfill6(call.code)].rec = CacheCopy(call.result)

----------------------------------------------------------------------------
(* stock_data.py : get_stock_price ; screener.py : process_single_stock    *)

PriceSources == <<"FinanceDataReader", "pykrx", "pykrx_daily">>

\* What the price sources answer for one instrument:
\*   yields        the sources that return a non-empty frame
\*   market_close  the market table has a close for the symbol (method 4)
\*   error         building or normalising the frame raises
PriceEnvs ==
    [yields : SUBSET {PriceSources[k] : k \in 1..Len(PriceSources)},
     market_close : BOOLEAN, error : BOOLEAN]

\* (get_stock_price without method 4: nothing is built when no source yields)
get_stock_price_without_default(penv) ==
    IF penv.error THEN "empty"
    ELSE IF \E k \in 1..Len(PriceSources) : PriceSources[k] \in penv.yields
    THEN PriceSources[CHOOSE k \in 1..Len(PriceSources) :
                         /\ PriceSources[k] \in penv.yields
                         /\ \A j \in 1..(k - 1) : PriceSources[j] \notin penv.yields]
    ELSE "empty"

\* get_stock_price(code, period='1y', use_cache=False): the method that
\* produced the frame, "empty" for the empty frame of the outer except.
\* When no source yields, method 4 builds a flat series from the market
\* table's close, or from the constants 10000/10200/9800 without it.
get_stock_price(penv) ==
    IF penv.error THEN "empty"
    ELSE IF \E k \in 1..Len(PriceSources) : PriceSources[k] \in penv.yields
    THEN PriceSources[CHOOSE k \in 1..Len(PriceSources) :
                         /\ PriceSources[k] \in penv.yields
                         /\ \A j \in 1..(k - 1) : PriceSources[j] \notin penv.yields]
    ELSE IF penv.market_close THEN "market_close_default"
    ELSE "flat_default"

\* The steps of process_single_stock in which an exception can be raised:
\* "fundamentals" inside get_financial_statement, "flow" inside
\* get_investor_data (both catch it themselves), the others in the task
Steps == {"indicators", "patterns", "fundamentals", "flow", "scoring", "result"}

\* Sub-scores of an instrument, in tenths: trend, pattern, rs, fundamental, investor
\* and the patterns its price history shows
TaskScores ==
    {[trend |-> 200, vcp |-> TRUE, pivot |-> TRUE, breakout |-> FALSE,
      rs |-> 200, fundamental |-> 240, investor |-> 80]}

\* (False, {}) for the three detectors when the pattern step raised
PatternResults(env) ==
    IF env.raises = "patterns"
    THEN [vcp |-> FALSE, pivot |-> FALSE, breakout |-> FALSE]
    ELSE [vcp |-> env.scores.vcp, pivot |-> env.scores.pivot,
          breakout |-> env.scores.breakout]

\* The record _get_default_investor_data returns
DefaultInvestorData == [NoInvestorData EXCEPT !.present = TRUE, !.data_source = "default"]

\* Step 4.4: get_financial_statement returns None when an exception reaches
\* its outer except, and None is scored
TaskFundamental(env) ==
    IF env.raises = "fundamentals" THEN calculate_fundamental_score(NoFinancialData)
    ELSE env.scores.fundamental

\* Step 4.5: get_investor_data returns the placeholder record when an
\* exception reaches its except, and the placeholder is scored
TaskInvestor(env) ==
    IF env.raises = "flow" THEN calculate_investor_score(DefaultInvestorData)
    ELSE env.scores.investor

\* Step 4 of process_single_stock: the total of the five sub-scores
TaskTotal(env) ==
    calculate_total_score(env.scores.trend, calculate_pattern_score(PatternResults(env)),
                          env.scores.rs, TaskFundamental(env), TaskInvestor(env))

TaskEnvs == [price : PriceEnvs, raises : Steps \cup {"none"}, scores : TaskScores]

\* What a future holds: nothing yet, the None or the result dict (its
\* six scores) that process_single_stock returned, or an exception.
NoScores(kind) ==
    [kind |-> kind, total_score |-> 0, trend_score |-> 0, pattern_score |-> 0,
     rs_score |-> 0, fundamental_score |-> 0, investor_score |-> 0]

Unset == NoScores("unset")
NoneResult == NoScores("None")
Raised == NoScores("raised")

\* The result dict of step 5: the scores of step 4, each round(float(x), 1)
\* of a value that already has one decimal.
ResultDict(env) ==
    [kind |-> "result",
     total_score |-> TaskTotal(env),
     trend_score |-> env.scores.trend,
     pattern_score |-> calculate_pattern_score(PatternResults(env)),
     rs_score |-> env.scores.rs,
     fundamental_score |-> TaskFundamental(env),
     investor_score |-> TaskInvestor(env)]

\* (process_single_stock letting the exception of a step escape)
process_single_stock_unguarded(env) ==
    IF get_stock_price(env.price) = "empty" THEN NoneResult
    ELSE IF env.raises \in {"indicators", "scoring", "result"} THEN Raised
    ELSE ResultDict(env)

\* (process_single_stock returning None for an exception in any step)
process_single_stock_strict(env) ==
    IF get_stock_price(env.price) = "empty" THEN NoneResult
    ELSE IF env.raises # "none" THEN NoneResult
    ELSE ResultDict(env)

\* process_single_stock: None, or the result dict.
\* An exception in the pattern step leaves the three patterns undetected
\* (pattern score 0); an exception in any other step returns None.
process_single_stock(env) ==
    IF get_stock_price(env.price) = "empty" THEN NoneResult
    ELSE IF env.raises \in {"indicators", "scoring", "result"} THEN NoneResult
    ELSE ResultDict(env)

\* One instrument processed on its own: the price fetch and the task.
ProcessStock ==
    /\ calc = IdleCalc
    /\ \E env \in TaskEnvs :
          calc' = [fn |-> "process_single_stock", in |-> env,
                   price |-> get_stock_price(env.price),
                   out |-> process_single_stock(env)]
    /\ UNCHANGED <<resolverVars, runVars>>

InitTask == ScoreIdle /\ ResolverIdle /\ RunIdle

NextTask == ProcessStock

SpecTask == InitTask /\ [][NextTask]_vars

----------------------------------------------------------------------------
(* screener.py : run_screening                                             *)

MaxListed == 2                  \* rows get_all_stocks returns, at most
MarketChoices == {{"KOSPI"}, {"KOSDAQ"}}
Thresholds == {0, 777}          \* total_score_threshold, in tenths (77.7 is a task's total)
Durations == {10, 40}           \* seconds a task runs
Timeout == 30                   \* future.result(timeout=30)

\* The built-in list used when fewer than 10 valid codes are listed
DefaultStocks ==
    <<"KOSPI", "KOSPI", "KOSPI", "KOSPI", "KOSPI",
      "KOSDAQ", "KOSDAQ", "KOSDAQ", "KOSDAQ", "KOSDAQ">>

\* len(all_stocks) after the code normalisation
UniverseSize(valid, markets) ==
    IF valid >= 10 THEN valid
    ELSE Cardinality({k \in 1..Len(DefaultStocks) : DefaultStocks[k] \in markets})

\* What process_single_stock can hand to its future, in a run whose
\* fundamentals and flow fetches meet no exception
TaskOutcomes ==
    {process_single_stock(env) :
        env \in {e \in TaskEnvs : e.raises \notin {"fundamentals", "flow"}}}

NewFuture == [state |-> "pending", result |-> Unset, early |-> FALSE, counted |-> "no"]

Tasks == 1..total_stocks
Finished(i) == future[i].state = "finished"

\* run_screening up to the end of the submit loop.  It returns an empty
\* frame at once without market data or without listed stocks.
Start ==
    /\ pc = "ready"
    /\ \E market_ok \in BOOLEAN, listed \in 0..MaxListed, markets \in MarketChoices,
          threshold \in Thresholds, max_workers \in {1, 2} :
          \E valid \in 0..listed :
            IF ~market_ok \/ listed = 0
            THEN /\ pc' = "done"
                 /\ returned' = <<>>
                 /\ UNCHANGED <<total_stocks, future, worker_count, total_score_threshold>>
            ELSE /\ pc' = "submitted"
                 /\ total_stocks' = UniverseSize(valid, markets)
                 /\ worker_count' = WorkerCount(UniverseSize(valid, markets), max_workers)
                 /\ future' = [i \in 1..UniverseSize(valid, markets) |-> NewFuture]
                 /\ total_score_threshold' = threshold
                 /\ UNCHANGED returned
    /\ UNCHANGED <<completed, task, all_results, processed_count, success_count,
                   error_count, files, scoreVars, resolverVars>>

\* A free worker takes the next task of the executor's queue.
StartTask(i) ==
    /\ pc \in {"submitted", "collect", "shutdown"}
    /\ future[i].state = "pending"
    /\ \A j \in 1..(i - 1) : future[j].state # "pending"
    /\ Cardinality({j \in Tasks : future[j].state = "running"}) < worker_count
    /\ future' = [future EXCEPT ![i].state = "running"]
    /\ UNCHANGED <<pc, total_stocks, completed, task, worker_count, total_score_threshold,
                   all_results, processed_count, success_count, error_count, returned,
                   files, scoreVars, resolverVars>>

\* The task ends: process_single_stock returns (or raises) and the future is done.
FinishTask(i) ==
    /\ future[i].state = "running"
    /\ \E result \in TaskOutcomes, seconds \in Durations :
          /\ future' = [future EXCEPT ![i].state = "finished", ![i].result = result]
          /\ task' = [index |-> i, seconds |-> seconds]
    /\ completed' = Append(completed, i)
    /\ UNCHANGED <<pc, total_stocks, worker_count, total_score_threshold,
                   all_results, processed_count, success_count, error_count, returned,
                   files, scoreVars, resolverVars>>

\* `for future in as_completed(futures)` starts: the futures already done
\* are set aside, to be yielded first, in the arbitrary order of a set.
AsCompleted ==
    /\ pc = "submitted"
    /\ pc' = "collect"
    /\ future' = [i \in Tasks |-> [future[i] EXCEPT !.early = Finished(i)]]
    /\ UNCHANGED <<total_stocks, completed, task, worker_count, total_score_threshold,
                   all_results, processed_count, success_count, error_count, returned,
                   files, scoreVars, resolverVars>>

\* The future as_completed may yield next: any of those set aside at the
\* start; after them the others, in the order they finish.
Yieldable(i) ==
    /\ Finished(i) /\ future[i].counted = "no"
    /\ IF \E j \in Tasks : future[j].early /\ future[j].counted = "no"
       THEN future[i].early
       ELSE \A k \in 1..Len(completed) :
               (future[completed[k]].counted = "no" /\ completed[k] # i)
                   => \E m \in 1..(k - 1) : completed[m] = i

\* One pass of the collection loop on the yielded future.  The future is
\* done, so result(timeout=30) returns or raises at once.  The loop ends
\* after the last future, or at the break of the except branch.
\* (the collection loop counting a failed task as an error only, not as
\* processed)
CollectErrorsUnprocessed(i) ==
    /\ pc = "collect"
    /\ Yieldable(i)
    /\ LET result == future[i].result
           raised == result.kind = "raised"
           failed == raised \/ result.kind = "None"
           errors == IF failed THEN error_count + 1 ELSE error_count
           break == raised /\ 2 * errors > total_stocks
           last == \A j \in Tasks \ {i} : future[j].counted # "no"
       IN  /\ all_results' = IF failed THEN all_results ELSE Append(all_results, result)
           /\ success_count' = IF failed THEN success_count ELSE success_count + 1
           /\ error_count' = errors
           /\ processed_count' = IF failed THEN processed_count ELSE processed_count + 1
           /\ future' = [future EXCEPT ![i].counted = IF failed THEN "error" ELSE "success"]
           /\ pc' = IF break \/ last THEN "shutdown" ELSE "collect"
    /\ UNCHANGED <<total_stocks, completed, task, worker_count, total_score_threshold,
                   returned, files, scoreVars, resolverVars>>

Collect(i) ==
    /\ pc = "collect"
    /\ Yieldable(i)
    /\ LET result == future[i].result
           raised == result.kind = "raised"
           failed == raised \/ result.kind = "None"
           errors == IF failed THEN error_count + 1 ELSE error_count
           break == raised /\ 2 * errors > total_stocks
           last == \A j \in Tasks \ {i} : future[j].counted # "no"
       IN  /\ all_results' = IF failed THEN all_results ELSE Append(all_results, result)
           /\ success_count' = IF failed THEN success_count ELSE success_count + 1
           /\ error_count' = errors
           /\ processed_count' = processed_count + 1
           /\ future' = [future EXCEPT ![i].counted = IF failed THEN "error" ELSE "success"]
           /\ pc' = IF break \/ last THEN "shutdown" ELSE "collect"
    /\ UNCHANGED <<total_stocks, completed, task, worker_count, total_score_threshold,
                   returned, files, scoreVars, resolverVars>>

\* [r for r in all_results if r['total_score'] >= total_score_threshold]
RECURSIVE FilterResults(_, _)
FilterResults(results, threshold) ==
    IF results = <<>> THEN <<>>
    ELSE IF Head(results).total_score >= threshold
         THEN <<Head(results)>> \o FilterResults(Tail(results), threshold)
         ELSE FilterResults(Tail(results), threshold)

\* Insert x into a sequence sorted from high to low
RECURSIVE InsertDescending(_, _)
InsertDescending(x, sorted) ==
    IF sorted = <<>> THEN <<x>>
    ELSE IF x.total_score >= Head(sorted).total_score THEN <<x>> \o sorted
    ELSE <<Head(sorted)>> \o InsertDescending(x, Tail(sorted))

\* (sort_values with ascending=True)
RECURSIVE SortValuesAscending(_)
SortValuesAscending(results) ==
    IF results = <<>> THEN <<>>
    ELSE LET rest == SortValuesAscending(Tail(results))
             x == Head(results)
             RECURSIVE Ins(_)
             Ins(q) == IF q = <<>> THEN <<x>>
                       ELSE IF x.total_score <= Head(q).total_score THEN <<x>> \o q
                       ELSE <<Head(q)>> \o Ins(Tail(q))
         IN  Ins(rest)

\* results_df.sort_values(by='total_score', ascending=False)
RECURSIVE SortValues(_)
SortValues(results) ==
    IF results = <<>> THEN <<>>
    ELSE InsertDescending(Head(results), SortValues(Tail(results)))

\* The score columns of a result
ScoreFields ==
    {"total_score", "trend_score", "pattern_score", "rs_score", "fundamental_score",
     "investor_score"}

\* The score keys of the `simplified` dict written to the details file
SimplifiedFields ==
    {"total_score", "trend_score", "pattern_score", "rs_score", "fundamental_score"}

\* A float of one decimal as it is written to a file, and read back
FormatFloat(t) == [units |-> t \div 10, tenths |-> t % 10]
ParseFloat(text) == 10 * text.units + text.tenths

\* results_df.to_csv(results_file): one row per result, every key a column
ToCsv(results_df) ==
    [k \in 1..Len(results_df) |-> [f \in ScoreFields |-> FormatFloat(results_df[k][f])]]

\* json.dump(json_safe_results): one `simplified` dict per filtered result
JsonDump(filtered_results) ==
    [k \in 1..Len(filtered_results) |->
        [f \in SimplifiedFields |-> FormatFloat(filtered_results[k][f])]]

\* A row or record of a file read back
Reload(record) == [f \in DOMAIN record |-> ParseFloat(record[f])]

\* The executor's `with` block ends once every task has run; then the
\* results are filtered, sorted, written to the two files and returned.
\* Nothing is written when no result passes the filter.
Finalize ==
    /\ pc = "shutdown"
    /\ \A i \in Tasks : Finished(i)
    /\ LET filtered_results == FilterResults(all_results, total_score_threshold)
           results_df == SortValues(filtered_results)
       IN  /\ returned' = results_df
           /\ files' = IF filtered_results # <<>>
                       THEN [results_file |-> ToCsv(results_df),
                             details_file |-> JsonDump(filtered_results)]
                       ELSE files
    /\ pc' = "done"
    /\ UNCHANGED <<total_stocks, future, completed, task, worker_count,
                   total_score_threshold, all_results, processed_count, success_count,
                   error_count, scoreVars, resolverVars>>

Init ==
    /\ ScoreIdle /\ ResolverIdle
    /\ pc = "ready"
    /\ total_stocks = 0
    /\ future = <<>>
    /\ completed = <<>>
    /\ task = IdleTask
    /\ worker_count = 0
    /\ total_score_threshold = 0
    /\ all_results = <<>>
    /\ processed_count = 0
    /\ success_count = 0
    /\ error_count = 0
    /\ returned = <<>>
    /\ files = NoFiles

Next ==
    \/ Start
    \/ \E i \in Tasks : StartTask(i)
    \/ \E i \in Tasks : FinishTask(i)
    \/ AsCompleted
    \/ \E i \in Tasks : Collect(i)
    \/ Finalize

Spec == Init /\ [][Next]_vars

----------------------------------------------------------------------------
(* Properties of the run and of one task                                   *)

\* Number of futures holding a given kind of outcome
CountKind(kind) == Cardinality({i \in Tasks : future[i].result.kind = kind})

\* Number of entries of a sequence of results with a given total_score
CountScore(results, total) ==
    Cardinality({k \in 1..Len(results) : results[k].total_score = total})

\* C3 (as stated): a universe in which more than half of the tasks have
\* failed is never processed to all N: the run aborts before.
C3_CircuitBreaker ==
    (total_stocks > 0 /\ 2 * error_count > total_stocks)
        => processed_count < total_stocks

\* C4 (as stated): a task that ran longer than the 30-second bound is
\* counted as a failure when its future is collected.
C4_PerTaskTimeout ==
    \A i \in Tasks :
        (task.index = i /\ task.seconds > Timeout /\ future[i].counted # "no")
            => future[i].counted = "error"

\* C5: nothing a task does escapes run_screening: no future ever holds an
\* exception, and when run_screening has returned every instrument of the
\* universe was processed and counted, as a success or as a failure.
C5_ErrorAbsorption ==
    /\ \A i \in Tasks : future[i].result.kind # "raised"
    /\ pc = "done" =>
          /\ processed_count = total_stocks
          /\ \A i \in Tasks : future[i].counted # "no"
          /\ success_count = CountKind("result")
          /\ error_count = CountKind("None")
          /\ Len(all_results) = success_count

\* The run returned although a task failed, and a task submitted after the
\* failed one was processed and gave a result.
C5_Witness ==
    /\ pc = "done"
    /\ \E i, j \in Tasks :
          /\ i < j
          /\ future[i].result.kind = "None"
          /\ future[j].counted = "success"

\* C9: what run_screening returns is exactly the collected results with
\* total_score >= the threshold, ordered by non-increasing total_score,
\* whatever the order of collection.
C9_Finalization ==
    pc = "done" =>
        /\ \A k \in 1..(Len(returned) - 1) :
              returned[k].total_score >= returned[k + 1].total_score
        /\ \A k \in 1..Len(returned) :
              /\ returned[k].kind = "result"
              /\ returned[k].total_score >= total_score_threshold
        /\ \A r \in TaskOutcomes :
              CountScore(returned, r.total_score) =
                 IF r.kind = "result" /\ r.total_score >= total_score_threshold
                 THEN Cardinality({i \in Tasks : future[i].result = r
                                                  /\ future[i].counted = "success"})
                 ELSE 0

\* Results were collected lowest first and are returned highest first.
C9_Witness ==
    /\ pc = "done"
    /\ Len(all_results) >= 2
    /\ all_results[1].total_score < all_results[2].total_score
    /\ returned[1].total_score > returned[Len(returned)].total_score

\* No price source yields a frame for the instrument.
NoPriceSource(penv) == penv.yields = {} /\ ~penv.market_close

\* C10 (as the code has it): an instrument is failed for its price only when
\* get_stock_price returns the empty frame, which it does only when building
\* the frame raises; then no result is produced.  When no source yields,
\* get_stock_price builds a default series and the instrument is processed
\* like any other: it gets a result unless a later step fails.
C10_PriceUnavailable ==
    calc.fn = "process_single_stock" =>
        /\ calc.price = "empty" <=> calc.in.price.error
        /\ calc.price = "empty" => calc.out = NoneResult
        /\ (NoPriceSource(calc.in.price) /\ ~calc.in.price.error) =>
              /\ calc.price = "flat_default"
              /\ calc.in.raises \in {"none", "patterns"} => calc.out.kind = "result"
        /\ (calc.in.price.yields = {} /\ calc.in.price.market_close
                /\ ~calc.in.price.error) =>
              /\ calc.price = "market_close_default"
              /\ calc.in.raises \in {"none", "patterns"} => calc.out.kind = "result"

\* No source yielded, nothing raised, and the instrument got a result.
C10_Witness ==
    /\ calc.fn = "process_single_stock"
    /\ NoPriceSource(calc.in.price)
    /\ calc.price = "flat_default"
    /\ calc.out.kind = "result"

\* C10 (as stated): an instrument for which no price source yields any data
\* produces no result.
C10_NoSourceNoResult ==
    (calc.fn = "process_single_stock" /\ NoPriceSource(calc.in.price))
        => calc.out = NoneResult

\* No tier above the sector defaults has data for the call.
NoHigherTier ==
    /\ (call.env.has \ call.env.raises)
          \subseteq (IF flags.dart_fss /\ flags.api_key THEN {} ELSE {"dart_fss"})
    /\ ~HasMeaningfulData(call.env.pykrx)

\* C12: without a fresh cache entry get_financial_statement returns a record
\* for every code, never None; when every higher tier yields nothing the
\* record is the sector-default tier's: the estimated record of the code's
\* sector, of the default sector for a code in no sector range, and the
\* minimal default record for a code that is not numeric.
C12_LastResort ==
    call.state = "returned" =>
        /\ call.result # NoRecord
        /\ call.result.tier # "none"
        /\ cache[Zfill6(call.code)].rec = CacheCopy(call.result)
        /\ NoHigherTier =>
              /\ call.result.tier = "default"
              /\ call.result.source \in
                    {"estimated_tech", "estimated_manufacturing", "estimated_default",
                     "minimal_default"}
              /\ call.result.source = "minimal_default" <=> ~IsNumeric(Zfill6(call.code))

\* A code that is not numeric got the minimal default record.
C12_Witness ==
    /\ call.state = "returned"
    /\ NoHigherTier
    /\ ~IsNumeric(Zfill6(call.code))
    /\ call.result.tier = "default"
    /\ call.result.source = "minimal_default"

\* The six scores of a result as a file record gives them back
SameScores(result, record) ==
    \A f \in ScoreFields : f \in DOMAIN record /\ Reload(record)[f] = result[f]

\* C13: every result run_screening persists is carried by the results CSV
\* and by the details JSON with its composite score and its five sub-scores
\* (trend, pattern, rs, fundamental, investor) equal to the in-memory values
\* to one decimal.
C13_RoundTrip ==
    pc = "done" =>
        \A k \in 1..Len(returned) :
            /\ SameScores(returned[k], files.results_file[k])
            /\ \E j \in 1..Len(files.details_file) :
                  SameScores(returned[k], files.details_file[j])

\* The failures counted so far exceed half of the universe: the condition
\* of the breaker at lines 368-370
OverThreshold == total_stocks > 0 /\ 2 * error_count > total_stocks

\* C19 (as stated): once the counted failures exceed the breaker's threshold
\* no further task is started: a task still pending at that moment stays
\* pending, and the run ends without it having run.
C19_AbortStopsDispatch ==
    [][OverThreshold =>
          \A i \in Tasks : future[i].state = "pending" => future'[i].state = "pending"]_vars

\* The task got a price frame and the given step raised
RaisedIn(step) ==
    /\ calc.fn = "process_single_stock"
    /\ calc.price # "empty"
    /\ calc.in.raises = step

PykrxAttempted ==
    /\ ChainRan
    /\ \E k \in 1..Len(call.attempted) : call.attempted[k] = "pykrx_market"

\* One of the fields get_market_fundamental_data estimates is non-zero: roe
\* and operating_margin (from eps and bps), sales_yoy and op_income_yoy (from
\* the dividend yield)
EstimatedFieldNonZero(p) == (p.eps > 0 /\ p.bps > 0) \/ p.dividend_yield > 0

\* One of the multiples read from the market table is positive
MultiplePositive(p) ==
    p.per > 0 \/ p.pbr > 0 \/ p.eps > 0 \/ p.bps > 0 \/ p.dividend_yield > 0

\* C21: the record of the market-multiples tier wins exactly when one of
\* per, pbr, eps, bps, roe, operating_margin, dividend_yield is positive
\* (the estimated roe and operating_margin are positive only with eps and bps
\* positive); otherwise the tier is passed and the chain goes on to the next.
C21_MultiplesAcceptance ==
    PykrxAttempted =>
        /\ call.result.tier = "pykrx_market" <=> MultiplePositive(call.env.pykrx)
        /\ ~MultiplePositive(call.env.pykrx) =>
              /\ call.attempted[Len(call.attempted)] # "pykrx_market"
              /\ call.result.tier \in {"dart_api", "default"}

\* The tier won with positive PER and PBR and no estimated field.
C21_Witness ==
    /\ PykrxAttempted
    /\ call.result.tier = "pykrx_market"
    /\ call.env.pykrx.per > 0
    /\ ~EstimatedFieldNonZero(call.env.pykrx)

\* C21 (as stated): the tier's record wins only if one of its estimated
\* fields is non-zero.
C21_EstimatedFieldsOnly ==
    (PykrxAttempted /\ call.result.tier = "pykrx_market")
        => EstimatedFieldNonZero(call.env.pykrx)

\* Position of a tier among the tiers the call attempted, 0 when it was not
AttemptedAt(t) ==
    IF \E k \in 1..Len(call.attempted) : call.attempted[k] = t
    THEN CHOOSE k \in 1..Len(call.attempted) : call.attempted[k] = t
    ELSE 0

\* C22: a tier that raises on malformed data, or returns nothing, ends
\* neither the chain nor the call: get_financial_statement returns a record,
\* the record is not that of a tier that raised, and after every attempted
\* tier that raised a later tier was attempted.
C22_TierFailure ==
    ChainRan =>
        /\ call.result # NoRecord
        /\ call.result.tier \notin call.env.raises
        /\ \A t \in call.env.raises :
              AttemptedAt(t) > 0 =>
                 /\ AttemptedAt(t) < Len(call.attempted)
                 /\ PosIn(t, ChainOrder) < PosIn(call.result.tier, ChainOrder)

\* The first tier raised on the symbol's data and the next tier won.
C22_Witness ==
    /\ ChainRan
    /\ "f_data_financial" \in call.env.raises
    /\ call.attempted[1] = "f_data_financial"
    /\ call.result.tier = "f_data_fundamental"

\* C23: the pool never exceeds max_workers; the pool of a universe of more
\* than 2000 stocks is no larger than that of a universe of 501..2000 stocks,
\* and a universe of at most 500 stocks gets a pool of one worker.
C23_PoolSizing ==
    calc.fn = "worker_count" =>
        /\ calc.out.pool <= calc.in.max_workers
        /\ calc.out.pool >= 1
        /\ (calc.in.total > 2000 /\ calc.in.other > 500 /\ calc.in.other <= 2000)
              => calc.out.pool <= calc.out.other_pool
        /\ calc.in.other <= 500 => calc.out.other_pool = 1

\* A screener with max_workers = 1 on a universe of more than 2000 stocks,
\* which the size classes alone would give two workers.
C23_Witness ==
    /\ calc.fn = "worker_count"
    /\ calc.in.total > 2000
    /\ calc.in.max_workers = 1
    /\ calc.out.pool = 1

\* C23 (as stated): the pool of a universe of more than 2000 stocks is no
\* larger than the pool of any smaller universe.
C23_LargeNoLarger ==
    (calc.fn = "worker_count" /\ calc.in.total > 2000 /\ calc.in.other < calc.in.total)
        => calc.out.pool <= calc.out.other_pool

----------------------------------------------------------------------------
(* screener.py : run_screening's universe, its pool, and the cache writes   *)
(* of the tasks that run in it                                              *)

\* The 'Code' values of the listed rows: a six-digit code, the same code
\* without its leading zeros and with a separator, another code, and a value
\* that is not a code.
ListedCodes ==
    {<<"0", "0", "5", "9", "3", "0">>, <<"5", "9", "3", "0">>,
     <<"0", "0", "5", "9", "-", "3", "0">>,
     <<"0", "0", "0", "6", "6", "0">>, <<"A", "B", "C">>}

\* The rows followed one by one: the leading rows of the listing
TrackedRows == 2

\* len(valid_stocks) of the listings, one per size class of the pool
ListingSizes == {10, 501, 2001}

\* valid_stocks: the rows whose code without '.' and '-' is all digits, in
\* listing order, each with that code zero-filled to six digits
RECURSIVE NormalizeUniverse(_)
NormalizeUniverse(rows) ==
    IF rows = <<>> THEN <<>>
    ELSE LET rest == NormalizeUniverse(SubSeq(rows, 1, Len(rows) - 1))
             clean_code == SelectSeq(rows[Len(rows)], LAMBDA ch : ch \notin {".", "-"})
         IN  IF IsNumeric(clean_code) THEN Append(rest, Zfill6(clean_code)) ELSE rest

PoolTasks == 1..Len(future)
Occupied == {i \in PoolTasks : future[i].state \in {"running", "chain"}}

\* run_screening up to the end of the submit loop: the listing is
\* normalised, the pool is sized, one task is submitted per row kept.
SubmitUniverse ==
    /\ pc = "listing"
    /\ \E rows \in [1..TrackedRows -> ListedCodes], size \in ListingSizes,
          max_workers \in 1..2 :
          LET valid_stocks == NormalizeUniverse(rows)
          IN  /\ total_stocks' = size
              /\ worker_count' = WorkerCount(size, max_workers)
              /\ future' = [k \in 1..Len(valid_stocks) |->
                               [state |-> "pending", code |-> valid_stocks[k]]]
    /\ pc' = "pool"
    /\ UNCHANGED <<calc, cache, call, flags, completed, task,
                   total_score_threshold, all_results, processed_count,
                   success_count, error_count, returned, files>>

\* A free worker of the pool takes the oldest task waiting.
TaskBegins(i) ==
    /\ pc = "pool"
    /\ i \in PoolTasks
    /\ future[i].state = "pending"
    /\ \A j \in 1..(i - 1) : future[j].state # "pending"
    /\ Cardinality(Occupied) < worker_count
    /\ future' = [future EXCEPT ![i].state = "running"]
    /\ UNCHANGED <<calc, cache, call, flags, pc, total_stocks, completed, task,
                   worker_count, total_score_threshold, all_results,
                   processed_count, success_count, error_count, returned, files>>

\* process_single_stock returns before the fundamentals (no price data).
TaskReturnsEarly(i) ==
    /\ pc = "pool"
    /\ i \in PoolTasks
    /\ future[i].state = "running"
    /\ future' = [future EXCEPT ![i].state = "done"]
    /\ UNCHANGED <<calc, cache, call, flags, pc, total_stocks, completed, task,
                   worker_count, total_score_threshold, all_results,
                   processed_count, success_count, error_count, returned, files>>

\* get_financial_statement(stock_code) of the task, up to the cache lookup:
\* a fresh entry is returned, otherwise the chain starts.
TaskLooksUp(i) ==
    /\ pc = "pool"
    /\ i \in PoolTasks
    /\ future[i].state = "running"
    /\ future' = [future EXCEPT ![i].state =
                     IF CacheFresh(cache[future[i].code]) THEN "done" ELSE "chain"]
    /\ UNCHANGED <<calc, cache, call, flags, pc, total_stocks, completed, task,
                   worker_count, total_score_threshold, all_results,
                   processed_count, success_count, error_count, returned, files>>

\* The rest of the task's get_financial_statement: the chain ends and
\* _save_to_financial_cache writes {code}_financial.json.
TaskSaves(i) ==
    /\ pc = "pool"
    /\ i \in PoolTasks
    /\ future[i].state = "chain"
    /\ \E env \in {e \in Envs : e.has = {}} :
          LET code == future[i].code
              attempted == Attempts(code, env, flags)
              winner == attempted[Len(attempted)]
          IN  cache' = [cache EXCEPT ![code] =
                           [tier |-> winner,
                            rec |-> CacheCopy(TierOutput(winner, code, env)),
                            age |-> 0]]
    /\ completed' = Append(completed, [task |-> i, key |-> future[i].code])
    /\ future' = [future EXCEPT ![i].state = "done"]
    /\ UNCHANGED <<calc, call, flags, pc, total_stocks, task,
                   worker_count, total_score_threshold, all_results,
                   processed_count, success_count, error_count, returned, files>>

InitPool ==
    /\ ScoreIdle /\ ResolverIdle
    /\ pc = "listing"
    /\ total_stocks = 0
    /\ future = <<>>
    /\ completed = <<>>
    /\ task = IdleTask
    /\ worker_count = 0
    /\ total_score_threshold = 0
    /\ all_results = <<>>
    /\ processed_count = 0
    /\ success_count = 0
    /\ error_count = 0
    /\ returned = <<>>
    /\ files = NoFiles

NextPool ==
    \/ SubmitUniverse
    \/ \E i \in 1..TrackedRows : TaskBegins(i)
    \/ \E i \in 1..TrackedRows : TaskReturnsEarly(i)
    \/ \E i \in 1..TrackedRows : TaskLooksUp(i)
    \/ \E i \in 1..TrackedRows : TaskSaves(i)

SpecPool == InitPool /\ [][NextPool]_vars

\* C24: within one run no two tasks write the same cache key.
C24_SingleWriter ==
    \A a, b \in 1..Len(completed) :
        completed[a].key = completed[b].key => completed[a].task = completed[b].task

\* Two rows of one listing are kept with the same formatted code.
C24_SameKeyTwice ==
    /\ pc = "pool"
    /\ Len(future) = 2
    /\ future[1].code = future[2].code

\* C24 for a pool of one worker: the second task of a symbol finds the entry
\* the first one wrote, and writes nothing.
C24_OneWorkerSingleWriter ==
    worker_count = 1 => C24_SingleWriter

----------------------------------------------------------------------------
(* Properties of the investor-flow components                              *)

\* A fetched flow record was scored
FetchedFlowScored ==
    calc.fn = "investor" /\ calc.in.present /\ calc.in.data_source # "default"

\* The points of a flow record that do not come from the buy-day fields
FlowWithoutConsecutive(in) == ForeignScore(in) + InstitutionScore(in) + ShortScore(in)

\* The part of the score of the call that the buy-day fields earned, in tenths
ConsecutivePart == calc.out - FlowWithoutConsecutive(calc.in)

\* Foreign and institution investors have both bought for three days or more
JointBuying == calc.in.foreign_buy_days >= 3 /\ calc.in.institution_buy_days >= 3

----------------------------------------------------------------------------
(* Properties of the pattern detectors on a full window                    *)

\* detect_pocket_pivot ran on a frame that fills its window
PivotJudged == calc.fn = "detect_pocket_pivot" /\ calc.in.len >= PivotWindow

\* The volume and moving-average conditions of the pocket pivot hold
PivotVolumeAndTrend ==
    /\ calc.in.has_ma
    /\ calc.in.vol > 150
    /\ calc.in.c20 /\ calc.in.m2060

VcpJudged == calc.fn = "detect_vcp" /\ calc.in.len >= VcpWindow

\* Close > MA20 > MA60 > MA120 at the latest row
FullyAligned == calc.in.c20 /\ calc.in.m2060 /\ calc.in.m60120

\* C27: detect_vcp returns found = true only if the volatility contracted and
\* close > MA20 > MA60 > MA120 at the latest row; contraction alone,
\* alignment alone or a frame without the MA columns gives found = false.
C27_VcpBothConditions ==
    VcpJudged =>
        /\ calc.out.found => (calc.in.contracted /\ calc.in.has_ma /\ FullyAligned)
        /\ (calc.in.contracted /\ ~FullyAligned) => ~calc.out.found
        /\ (FullyAligned /\ ~calc.in.contracted) => ~calc.out.found
        /\ ~calc.in.has_ma => ~calc.out.found

\* The volatility contracted on a frame whose MA60 is not above its MA120:
\* no VCP.
C27_Witness ==
    /\ VcpJudged
    /\ calc.in.contracted
    /\ calc.in.has_ma /\ calc.in.c20 /\ calc.in.m2060 /\ ~calc.in.m60120
    /\ ~calc.out.found

----------------------------------------------------------------------------
(* Properties of the run counters                                          *)

\* The tasks whose future the collection loop has taken, by branch
CountedAs(how) == {i \in Tasks : future[i].counted = how}

\* C28: during and after the collection processed_count = success_count +
\* error_count, success_count is the number of collected results,
\* processed_count does not exceed the universe size, and every task is
\* counted at most once: the counters are the numbers of futures taken.
C28_RunCounters ==
    /\ processed_count = success_count + error_count
    /\ success_count = Len(all_results)
    /\ processed_count <= total_stocks
    /\ success_count = Cardinality(CountedAs("success"))
    /\ error_count = Cardinality(CountedAs("error"))

\* In the middle of the collection one result and one failure were counted
\* while other futures were still to come.
C28_Witness ==
    /\ pc = "collect"
    /\ success_count >= 1
    /\ error_count >= 1
    /\ processed_count < total_stocks

----------------------------------------------------------------------------
(* Properties of the cache across calls                                    *)

\* C29: the record of every chain run, a sector-default estimate included,
\* is written to the cache under its tier; and a later resolve without
\* force_update that finds the entry younger than 7 days returns that
\* record, of the tier that won when it was written, whatever tiers hold
\* data for the symbol by then.
C29_CachePinsTier ==
    [][(call = IdleCall /\ call' # IdleCall) =>
          LET key == Zfill6(call'.code)
          IN  /\ (call'.attempted # <<>> /\ call'.result # NoRecord) =>
                    cache'[key] = [tier |-> call'.result.tier,
                                   rec |-> CacheCopy(call'.result), age |-> 0]
              /\ (~call'.force_update /\ cache[key].tier # "none"
                    /\ cache[key].age < TTL_DAYS) =>
                    /\ call'.result = cache[key].rec
                    /\ call'.result.tier = cache[key].tier
                    /\ cache'[key] = cache[key]]_vars

\* A sector-default estimate written some days ago is returned from the
\* cache although the quarterly snapshot now holds the symbol.
C29_Witness ==
    /\ call.state = "returned"
    /\ call.looked = "fresh"
    /\ call.attempted = <<>>
    /\ call.result.tier = "default"
    /\ call.result.cached_at
    /\ cache[Zfill6(call.code)].age > 0
    /\ "f_data_financial" \in call.env.has

----------------------------------------------------------------------------
(* Properties of the short-selling component                               *)

\* The points of a flow record that do not come from the short-selling ratio
FlowWithoutShort(in) == ForeignScore(in) + InstitutionScore(in) + ConsecutiveScore(in)

\* The record lacks 'short_selling_ratio' or holds a ratio of at most 1%
ShortAbsentOrLow == ~calc.in.has_short \/ calc.in.short_selling_ratio <= 10

\* C30: for a flow record with a data_source other than 'default' whose
\* short_selling_ratio is missing or at most 1%, the short-selling component
\* is its top tier of 2 points, so the investor score is at least 2 whatever
\* the other fields hold.
C30_ShortDefault ==
    (FetchedFlowScored /\ ShortAbsentOrLow) =>
        /\ calc.out = FlowWithoutShort(calc.in) + 20
        /\ calc.out >= 20

\* A record without 'short_selling_ratio', with foreign net selling, no
\* institution buying and no buy days, scored exactly 2.
C30_Witness ==
    /\ FetchedFlowScored
    /\ ~calc.in.has_short
    /\ calc.in.foreign_net_buy < 0
    /\ calc.in.institution_net_buy = 0
    /\ calc.in.net_buy_days = 0
    /\ calc.out = 20

====
